---------------------------- MODULE Spec2Model ----------------------------
(***************************************************************************)
(* Encrypted block store (sfs::view) and the log-structured keyed map      *)
(* built on it (ssdb::umap), with the free-space index and the combined    *)
(* hash the map uses.                                                      *)
(*                                                                         *)
(*   Spec     the map: init/reload, write(f), flush(f), flush(), close,    *)
(*            and the death of the process between any two steps, for a    *)
(*            client with two keys and two one-block values                *)
(*   SpecKeys the same for a client with three keys and one value          *)
(*   SpecBig  the map of a client that also stores a three-block value     *)
(*   SpecEBS  the block store alone: write_block, read_block, and an       *)
(*            outside party exchanging sealed blocks in the file           *)
(***************************************************************************)
EXTENDS Integers, Sequences, FiniteSets, TLC

(***************************************************************************)
(* Bounds of the model.                                                    *)
(***************************************************************************)
\* Size of the block address space (2^32 in the program): std::uint32_t
\* arithmetic is taken modulo NAddr.
NAddr == 16

\* Largest number of blocks the container file grows to.
MaxBlocks == 4

\* Largest order (m_order) the map hands out.
MaxOrder == 5

\* Number of times the process dies without closing the map.
MaxCrashes == 1

\* The same for the client that stores three-block values.
MaxBlocksBig == 9
MaxOrderBig == 7

\* The same for the map that two threads call.
MaxBlocksThr == 3
MaxOrderThr == 3

\* The same for the client whose store is damaged and reopened.
MaxBlocksRec == 6
MaxOrderRec == 4

\* Largest number of blocks of the file of the block store taken alone.
MaxBlocksEBS == 2

\* The same for the map whose client stores records of two blocks and dies.
MaxBlocksLong == 5
MaxOrderLong == 4

\* The device that fails: blocks of the file, orders handed out, and blocks
\* that are bad at one time.
MaxBlocksIO == 5
MaxOrderIO == 3
MaxFaults == 1

\* free_space alone: the largest start and the largest length the client
\* passes, besides UINT32_MAX.
MaxFreeStart == 3
MaxFreeCount == 3

\* Longest vector or string the client of sstl serializes.
MaxVecLen == 2

\* The byte stream over the block store: the payload bytes of a block
\* (sfs::block_size, 4064 in the program), the longest buffer and the
\* largest offset its client passes, and the number of calls it makes.
BlockBytes == 3
MaxStreamLen == 4
MaxOffset == 7
MaxStreamOps == 3
MaxPush == 3
MaxTakes == 2
ListThreads == 3
ListCells == 3
MaxTrunc == 7
MaxViewOffset == 4
MaxViewOps == 2

(***************************************************************************)
(* Program constants.                                                      *)
(***************************************************************************)
\* sizeof(block_layout::data) = sfs::block_size - 4 * sizeof(uint64_t)
DataSize == 4032

\* view::write, line 482: the largest gap it fills, 1 GiB.
GapLimit == 1024 * 1024 * 1024
\* The largest size trunc accepts, 1024 TiB in the source; the sizes of the model
\* are brought down with its blocks, to the largest integer that leaves a
\* greater one to call trunc with.
TruncLimit == 2147483646

UINT32_MAX == NAddr - 1

\* Keys and values of the client; EncSize is the length of sstl::save's
\* output for (key, value): the values of SmallVals give a record that fits
\* one block, those of MidVals one that needs two, those of BigVals one that
\* needs three.
Keys == {"a", "b", "c"}
SmallVals == {1, 2}
BigVals == {3}
MidVals == {4}
NoKey == "-"

EncSize(k, v) ==
    IF v \in BigVals THEN 2 * DataSize + 100
    ELSE IF v \in MidVals THEN DataSize + 100
    ELSE 100

\* Container identifiers (the ident argument of read_block/write_block).
Idents == {0, 1}

U32(x) == x % NAddr

Min(S) == CHOOSE x \in S : \A y \in S : x <= y
Max(S) == CHOOSE x \in S : \A y \in S : x >= y

(***************************************************************************)
(* std::map<uint32_t, uint32_t> as a function from its keys.               *)
(***************************************************************************)
EmptyMap == [x \in {} |-> 0]

Put(m, k, v) == [x \in (DOMAIN m) \cup {k} |-> IF x = k THEN v ELSE m[x]]

\* std::map::emplace: an existing entry is kept.
Emplace(m, k, v) == IF k \in DOMAIN m THEN m ELSE Put(m, k, v)

Erase(m, k) == [x \in (DOMAIN m) \ {k} |-> m[x]]

(***************************************************************************)
(* ssdb::free_space                                                        *)
(***************************************************************************)
\* add_free, lines 58-62: "it->second + block < block" in 32-bit arithmetic.
Clamp(block, second) ==
    IF U32(second + block) < block THEN UINT32_MAX - block ELSE second

\* add_free, lines 50-56: the length of the entry at block after emplace.
Emplaced(m, block, count) ==
    IF block \in DOMAIN m /\ m[block] >= count THEN m[block] ELSE count

\* The key of the entry before (after) key k, or -1.
PrevKey(m, k) == IF \E x \in DOMAIN m : x < k THEN Max({x \in DOMAIN m : x < k}) ELSE -1
NextKey(m, k) == IF \E x \in DOMAIN m : x > k THEN Min({x \in DOMAIN m : x > k}) ELSE -1

\* "a->first + a->second >= b->first" of lines 69 and 81, in 32-bit arithmetic.
Reaches(m, a, b) == U32(a + m[a]) >= b

\* Lines 72-73 and 84-85: entry b is merged into entry a before it.
Merged(m, a, b) ==
    Put(Erase(m, b), a, U32(m[a] + U32(m[b] - U32(U32(a + m[a]) - b))))

\* Lines 78-86: [m, it] is the map and the entry the new block is in.
MergeNext(r, next) ==
    IF next # -1 /\ Reaches(r.m, r.it, next) THEN Merged(r.m, r.it, next) ELSE r.m

\* Lines 64-76.
MergePrev(m, block, prev) ==
    IF prev # -1 /\ Reaches(m, prev, block)
    THEN [m |-> Merged(m, prev, block), it |-> prev]
    ELSE [m |-> m, it |-> block]

AddFreeNext(r) == MergeNext(r, NextKey(r.m, r.it))

add_free(m, block, count) ==
    IF count = 0 THEN m
    ELSE AddFreeNext(MergePrev(Put(m, block, Clamp(block, Emplaced(m, block, count))),
                               block, PrevKey(m, block)))

\* First fit: the first interval, in key order, that is long enough.
BestFit_First(m, count) == Min({k \in DOMAIN m : m[k] >= count})

\* The interval get_free picks: the first one, in key order, of the smallest
\* sufficient length (the loop stops at an exact fit, which is such a one).
BestFit(m, count) ==
    Min({k \in DOMAIN m : m[k] >= count
                          /\ \A x \in DOMAIN m : m[x] >= count => m[x] >= m[k]})

\* The last interval is erased and nothing is put in its place.
TakeFrom_NoDummy(m, pos, count) ==
    IF U32(m[pos] - count) # 0
    THEN Emplace(Erase(m, pos), U32(pos + count), U32(m[pos] - count))
    ELSE Erase(m, pos)

\* Lines 126-146: count blocks are taken from the interval at pos.
TakeFrom(m, pos, count) ==
    IF U32(m[pos] - count) # 0
    THEN Emplace(Erase(m, pos), U32(pos + count), U32(m[pos] - count))
    ELSE IF DOMAIN m = {pos} THEN Emplace(Erase(m, pos), 0, 0)
    ELSE Erase(m, pos)

GetFreeAt(m, pos, count) == [pos |-> pos, ok |-> TRUE, free |-> TakeFrom(m, pos, count)]

\* get_free: [pos, free, ok]; ok = FALSE stands for throw std::bad_alloc().
get_free(m, count) ==
    IF \E k \in DOMAIN m : m[k] >= count
    THEN GetFreeAt(m, BestFit(m, count), count)
    ELSE IF DOMAIN m = {}
         THEN [pos |-> 0, ok |-> TRUE,
               free |-> IF count # 0 THEN Emplace(m, count, U32(0 - count)) ELSE m]
         ELSE [pos |-> 0, ok |-> FALSE, free |-> m]

\* The blocks an index holds free.
FreeBlocks(m) == {b \in 0..(NAddr - 1) : \E k \in DOMAIN m : k <= b /\ b < k + m[k]}

(***************************************************************************)
(* ssdb::block_layout, the plaintext of one block.  data is given by the   *)
(* record (key, value) it is a fragment of and the fragment's number; a    *)
(* terminator's data is the combined hash it snapshots.                    *)
(***************************************************************************)
HeadBlock(o, k, v) ==
    [order |-> o, size |-> EncSize(k, v), key |-> k, val |-> v, frag |-> 0, hash |-> {}]

ContBlock(o, k, v, i) ==
    [order |-> o, size |-> -1, key |-> k, val |-> v, frag |-> i, hash |-> {}]

TermBlock(o, h) ==
    [order |-> o, size |-> 0, key |-> NoKey, val |-> 0, frag |-> 0, hash |-> h]

ZeroBlock == [order |-> 0, size |-> 0, key |-> NoKey, val |-> 0, frag |-> 0, hash |-> {}]

(***************************************************************************)
(* sfs::view.  A sealed block is AES-256-GCM's output for a plaintext      *)
(* under the additional authenticated data block_aad{ident, index}: it     *)
(* opens under the same data and under no other.                           *)
(***************************************************************************)
\* block_aad without the block index.
block_aad_NoIndex(ident, index) == [ident |-> ident, index |-> 0]

\* block_aad without the container identifier.
block_aad_NoIdent(ident, index) == [ident |-> 0, index |-> index]

\* block_aad as write_block and read_block fill it in.
block_aad(ident, index) == [ident |-> ident, index |-> index]

Seal(aad, pl) == [aad |-> aad, pl |-> pl]

\* read_block: [ok, buf]; buf is meaningful only when ok.
read_block(f, cnt, block, ident) ==
    IF block >= cnt \/ block >= Len(f) THEN [ok |-> FALSE, buf |-> ZeroBlock]
    ELSE IF f[block + 1].aad # block_aad(ident, block)
         THEN [ok |-> FALSE, buf |-> ZeroBlock]
         ELSE [ok |-> TRUE, buf |-> f[block + 1].pl]

\* write_block that takes every block it writes for the last one.
write_block_Last(f, cnt, block, pl, ident) ==
    IF block > cnt THEN [ok |-> FALSE, file |-> f, count |-> cnt]
    ELSE [ok |-> TRUE,
          file |-> IF block = Len(f) THEN Append(f, Seal(block_aad(ident, block), pl))
                   ELSE [f EXCEPT ![block + 1] = Seal(block_aad(ident, block), pl)],
          count |-> block + 1]

\* The device: the blocks whose write fails (RAND_bytes, the cipher, lseek or
\* write reports an error).
VARIABLE io

\* write_block: [ok, file, count].
write_block(f, cnt, block, pl, ident) ==
    IF block > cnt \/ block \in io THEN [ok |-> FALSE, file |-> f, count |-> cnt]
    ELSE [ok |-> TRUE,
          file |-> IF block = Len(f) THEN Append(f, Seal(block_aad(ident, block), pl))
                   ELSE [f EXCEPT ![block + 1] = Seal(block_aad(ident, block), pl)],
          count |-> IF block = cnt THEN block + 1 ELSE cnt]

(***************************************************************************)
(* State.                                                                  *)
(***************************************************************************)
VARIABLES
    file,       \* the container file: the sealed blocks, block i at file[i + 1]
    unsynced,   \* the blocks written since the last view.flush() (fsync)
    m_count,    \* sfs::view::m_count
    m_map,      \* umap::m_map: key -> entry (control and value); in = present
    m_free,     \* free_space::m_free
    m_error,    \* umap::m_error, as the set of its bits
    m_lastf,    \* umap::m_lastf
    m_order,    \* umap::m_order
    m_flush,    \* umap::m_flush; -1 and -2 are the sentinels of reload
    m_hash,     \* umap::m_hash: the (order, pos) tuples combined an odd number of times
    pc,         \* where the process is: "down", "idle", or inside a call
    ret,        \* where finalize returns to: "idle", or "dtor" from ~umap
    w_modify,   \* writer::m_modify
    w_flush,    \* writer::m_flush
    new_pos,    \* finalize's local new_pos
    conf,       \* what the client does: the keys and values it stores, and the
                \* bounds on the file's blocks, the orders and the crashes
    rd,         \* the last read_block of the block store's client and its result
    wrote,      \* block -> payload and ident of the last successful write_block
                \* to it, for the blocks nobody else has touched since
    committed,  \* key -> value in memory when the last terminator reached the file
    inflight,   \* key -> value in memory when the process went down
    how,        \* how the process went down: "crash" or "close"; "up" while it
                \* runs, "new" before it ever ran
    flushed,    \* flush() or flush(f) was called since the map was opened
    crashes,    \* times the process died
    freed,      \* runs: the heads of the three-block runs the last commit freed
                \* for a one-block run, while nothing was allocated since;
                \* ins: the head of the three-block run allocated next, or -1
    damage,     \* heads: the head blocks of the entries when the map was closed;
                \* block: the block of the file that was damaged, or -1;
                \* fresh: the file was not opened since
    visited,    \* the entries whose write failed in the loop of ~writer or of
                \* finalize that runs: the loop has passed them
    sched       \* the threads that call the map: mutex, the holder of m_mutex or
                \* 0; cur, the thread that runs, whose context is pc, ret,
                \* w_modify, w_flush and new_pos; ctx, the contexts of the others

vars == <<file, unsynced, m_count, m_map, m_free, m_error, m_lastf, m_order, m_flush,
          m_hash, pc, ret, w_modify, w_flush, new_pos, conf, rd, wrote, committed,
          inflight, how, flushed, crashes, freed, damage, sched, io, visited>>

envVars == <<conf, sched, io>>
diskVars == <<file, unsynced, m_count>>
mapVars == <<m_map, m_free, m_error, m_lastf, m_order, m_flush, m_hash>>
writerVars == <<w_modify, w_flush>>
ebsVars == <<rd, wrote>>
ghostVars == <<committed, inflight, how, flushed, crashes, freed, damage, visited>>

(***************************************************************************)
(* ssdb::control and the map's entries.                                    *)
(***************************************************************************)
null_control ==
    [order |-> 0, load_block |-> 0, load_count |-> 0, new_block |-> 0, new_count |-> 0]

Entry(ctrl, v) ==
    [in |-> TRUE, order |-> ctrl.order, load_block |-> ctrl.load_block,
     load_count |-> ctrl.load_count, new_block |-> ctrl.new_block,
     new_count |-> ctrl.new_count, val |-> v]

NoEntry ==
    [in |-> FALSE, order |-> 0, load_block |-> 0, load_count |-> 0, new_block |-> 0,
     new_count |-> 0, val |-> 0]

EmptyUmap == [k \in Keys |-> NoEntry]

NoFreed == [runs |-> {}, ins |-> -1]

NoDamage == [heads |-> {}, block |-> -1, fresh |-> FALSE]

\* The threads that call the map's operations.
Threads == {1, 2}

\* The context of a thread that is in none of the map's operations.
IdleCtx == [pc |-> "idle", ret |-> "idle", w_modify |-> FALSE, w_flush |-> FALSE,
            new_pos |-> 0]

NoSched == [mutex |-> 0, cur |-> 1, ctx |-> [t \in Threads |-> IdleCtx]]

\* The client's view of the map: the keys present and their values.
MapVals(m) == [k \in Keys |-> IF m[k].in THEN m[k].val ELSE 0]

NoVals == [k \in Keys |-> 0]

(***************************************************************************)
(* combined_hash: HMAC values are taken to be independent, so the XOR of   *)
(* a multiset of them is determined by the tuples that occur in it an odd  *)
(* number of times.                                                        *)
(***************************************************************************)
\* combine() overwriting the accumulator instead of XORing into it.
xor_order_Overwrite(h, order, pos) == {<<order, pos>>}

\* xor_order: m_hash.combine(be64 order || be64 pos)
xor_order(h, order, pos) ==
    IF <<order, pos>> \in h THEN h \ {<<order, pos>>} ELSE h \cup {<<order, pos>>}

(***************************************************************************)
(* umap::reload.  One scan of the file is ScanFrom; st is the state the    *)
(* scan builds: [map, free, hash, order, lastf, last_hash, error], and     *)
(* flush is m_flush during the scan (-1 first, then the order to roll back *)
(* to, then -2).                                                           *)
(***************************************************************************)
\* A reload that never takes a block for newer than the terminator.
OrderAboveFlush_Never(order, flush) == FALSE

\* "_order > m_flush" on std::uint64_t: the sentinels -1 and -2 are above
\* every order that passed the check of line 156.
OrderAboveFlush(order, flush) == flush >= 0 /\ order > flush

\* The block the continuation loop reads (line 220 reads block i).
ContIndex(i, j) == i

\* std::min(size, sizeof(sbuf.data))
Chunk(size) == IF size < DataSize THEN size ELSE DataSize

\* Lines 220-225: the run breaks off at block i.
ContBreak(st, i, blk, size) ==
    [st |-> [st EXCEPT !.error = @ \cup {8},
                       !.free = add_free(@, blk, U32((i + 1) - blk))],
     i |-> i, size |-> size]

RECURSIVE ContLoop(_, _, _, _, _, _, _, _)
ContStep(st, i, j, size, blk, order, f, cnt, r) ==
    IF ~r.ok \/ r.buf.order # order \/ r.buf.size # -1
    THEN ContBreak(st, i, blk, size)
    ELSE ContLoop(st, i + 1, j + 1, size - Chunk(size), blk, order, f, cnt)

\* Lines 218-229: [st, i, size] when the loop is left.
ContLoop(st, i, j, size, blk, order, f, cnt) ==
    IF size > DataSize /\ j < cnt
    THEN ContStep(st, i, j, size, blk, order, f, cnt,
                  read_block(f, cnt, ContIndex(i, j), 0))
    ELSE [st |-> st, i |-> i, size |-> size]

\* The block is left out and goes to the free space (lines 148-150, 158-160,
\* 170-171, 182-184, 207).
Skip(st, i, bits) ==
    [st EXCEPT !.error = @ \cup bits, !.free = add_free(@, i, 1)]

\* The scan frees the terminator it takes instead of the one it gives up.
TakeTerminator_FreeTaken(st, i, buf) ==
    [st EXCEPT !.free = add_free(@, i, 1), !.last_hash = buf.hash,
               !.order = buf.order, !.lastf = i]

\* Lines 193-199: the terminator of the largest order so far, first scan.
TakeTerminator(st, i, buf) ==
    [st EXCEPT !.free = add_free(@, st.lastf, 1), !.last_hash = buf.hash,
               !.order = buf.order, !.lastf = i]

\* Lines 190-211: a terminator block.
ScanTerminator(st, i, buf, flush) ==
    IF flush = -1 /\ buf.order > st.order THEN TakeTerminator(st, i, buf)
    ELSE IF flush = buf.order THEN [st EXCEPT !.last_hash = buf.hash, !.lastf = i]
    ELSE Skip(st, i, {})

\* Lines 247-252: the entry's older run is overwritten.
Superseded(st, e) ==
    IF e.order # 0
    THEN [st EXCEPT !.hash = xor_order(@, e.order, e.load_block),
                    !.free = add_free(@, e.load_block, e.load_count)]
    ELSE st

\* Lines 254-259.
Loaded(st, blk, cnt, buf) ==
    [st EXCEPT !.map[buf.key] = Entry([order |-> buf.order, load_block |-> blk,
                                       load_count |-> cnt, new_block |-> 0,
                                       new_count |-> 0], buf.val),
               !.hash = xor_order(@, buf.order, blk)]

\* Lines 237-264: the record of cnt blocks from blk is decoded and put in
\* the map, whose entry for the key is e.
ScanRecord(st, e, blk, cnt, buf) ==
    IF e.order < buf.order THEN Loaded(Superseded(st, e), blk, cnt, buf)
    ELSE [st EXCEPT !.free = add_free(@, blk, cnt)]

\* Lines 231-264, lp being what the continuation loop left.
ScanData(lp, blk, buf) ==
    IF lp.size # 0
    THEN [st |-> [lp.st EXCEPT !.error = @ \cup {16}], i |-> lp.i]
    ELSE [st |-> ScanRecord(lp.st, lp.st.map[buf.key], blk, U32((lp.i + 1) - blk), buf),
          i |-> lp.i]

\* Lines 174-178.
MaxOrderSeen(st, order, flush) ==
    IF flush # -1 /\ order > st.order THEN [st EXCEPT !.order = order] ELSE st

\* Lines 180-264 for a block with a valid header.
ScanValid(st, i, f, cnt, flush, buf) ==
    IF OrderAboveFlush(buf.order, flush) THEN [st |-> Skip(st, i, {4}), i |-> i]
    ELSE IF buf.size = 0 THEN [st |-> ScanTerminator(st, i, buf, flush), i |-> i]
    ELSE ScanData(ContLoop(st, i, i + 1, buf.size - Chunk(buf.size), i, buf.order,
                           f, cnt),
                  i, buf)

\* The error bits of a block that is skipped for what it is (lines 146-172):
\* not decrypted, an order out of range, a continuation.
Unusable(r) == ~r.ok \/ r.buf.order = 0 \/ r.buf.size = -1
UnusableBits(r) == IF ~r.ok THEN {1} ELSE IF r.buf.order = 0 THEN {2} ELSE {}

\* The body of the loop of line 144 for block i, read as r: [st, i], i as the
\* body leaves it.
ScanBlock(st, i, f, cnt, flush, r) ==
    IF Unusable(r) THEN [st |-> Skip(st, i, UnusableBits(r)), i |-> i]
    ELSE ScanValid(MaxOrderSeen(st, r.buf.order, flush), i, f, cnt, flush, r.buf)

RECURSIVE ScanFrom(_, _, _, _, _)
ScanNext(b, f, cnt, flush) == ScanFrom(b.st, b.i + 1, f, cnt, flush)

ScanFrom(st, i, f, cnt, flush) ==
    IF i >= cnt THEN st
    ELSE ScanNext(ScanBlock(st, i, f, cnt, flush, read_block(f, cnt, i, 0)),
                  f, cnt, flush)

\* Lines 129-140: the state a scan starts from.
ScanInit(cnt, error) ==
    [map |-> EmptyUmap, free |-> add_free(EmptyMap, cnt, U32(0 - cnt)), hash |-> {},
     order |-> 0, lastf |-> UINT32_MAX, last_hash |-> {}, error |-> error]

\* What reload leaves in the umap: [map, free, hash, order, lastf, error,
\* flush], and the number of scans it took.
Reloaded(st, flush, error) ==
    [map |-> st.map, free |-> st.free, hash |-> st.hash, order |-> st.order,
     lastf |-> st.lastf, error |-> error, flush |-> flush, passes |-> 1]

OneMore(r) == [r EXCEPT !.passes = @ + 1]

RECURSIVE reload(_, _, _, _)
\* A reload that gives up after the second scan.
ReloadEnd_Twice(f, cnt, flush, st) ==
    IF flush = -1 /\ st.hash # st.last_hash
    THEN OneMore(reload(f, cnt, st.order, st.error))
    ELSE Reloaded(st, st.order, st.error)

\* Lines 267-293, st being what the scan left.
ReloadEnd(f, cnt, flush, st) ==
    IF flush = -1
    THEN IF st.hash # st.last_hash THEN OneMore(reload(f, cnt, st.order, st.error))
         ELSE Reloaded(st, st.order, st.error)
    ELSE IF flush = -2 THEN Reloaded(st, 0, st.error \cup {32})
    ELSE IF st.hash # st.last_hash THEN OneMore(reload(f, cnt, -2, st.error))
    ELSE Reloaded(st, st.order, st.error)

\* reload() with m_flush = flush and m_error = error on entry.
reload(f, cnt, flush, error) ==
    ReloadEnd(f, cnt, flush, ScanFrom(ScanInit(cnt, error), 0, f, cnt, flush))

(***************************************************************************)
(* umap::dirty and umap::write, on u = [map, free, hash, order, error,     *)
(* file, count, alloc].                                                    *)
(***************************************************************************)
\* The block whose tuple an entry contributes to the combined hash.
HeadOf(e) == IF e.new_count # 0 THEN e.new_block ELSE e.load_block

\* umap::dirty
dirty(u, k) ==
    IF u.map[k].order # 0
    THEN [u EXCEPT !.hash = xor_order(@, u.map[k].order, HeadOf(u.map[k])),
                   !.map[k].order = 0]
    ELSE u

\* Number of blocks a record of size bytes takes (lines 319-324).
BlockCount(size) == (size \div DataSize) + (IF size % DataSize # 0 THEN 1 ELSE 0)

\* The plaintext of block i of the run of a record (lines 344-360).
RunBlock(i, order, k, v) ==
    IF i = 0 THEN HeadBlock(order, k, v) ELSE ContBlock(order, k, v, i)

RECURSIVE WriteRun(_, _, _, _, _, _, _, _)
WriteRunNext(w, blk, n, i, order, k, v) ==
    IF ~w.ok THEN w ELSE WriteRun(w.file, w.count, blk, n, i + 1, order, k, v)

\* The loop of lines 342-373 from block i of the run on: [ok, file, count].
WriteRun(f, cnt, blk, n, i, order, k, v) ==
    IF i >= n THEN [ok |-> TRUE, file |-> f, count |-> cnt]
    ELSE WriteRunNext(write_block(f, cnt, U32(blk + i), RunBlock(i, order, k, v), 0),
                      blk, n, i, order, k, v)

\* Lines 362-372: a block of the run was not written.
WriteFailed(u, k, g, count, order, w) ==
    [u EXCEPT !.map[k].order = 0, !.map[k].new_block = 0, !.map[k].new_count = 0,
              !.free = add_free(g.free, g.pos, count),
              !.hash = xor_order(xor_order(@, order, g.pos), order, g.pos),
              !.error = @ \cup {64}, !.file = w.file, !.count = w.count]

\* Lines 328-373 once the run g.pos.. is had and the blocks are written (w).
Written1(u, k, g, count, order, w) ==
    IF w.ok
    THEN [u EXCEPT !.map[k].order = order, !.map[k].new_block = g.pos,
                   !.map[k].new_count = count, !.free = g.free,
                   !.hash = xor_order(@, order, g.pos),
                   !.order = order, !.file = w.file, !.count = w.count]
    ELSE WriteFailed(u, k, g, count, order, w)

WriteTo(u, k, g, count, order) ==
    IF ~g.ok THEN [u EXCEPT !.alloc = FALSE]
    ELSE Written1(u, k, g, count, order,
                  WriteRun(u.file, u.count, g.pos, count, 0, order, k, u.map[k].val))

\* The record is written over the run it was loaded from.
RunFor_InPlace(free, e, count) == [pos |-> e.load_block, ok |-> TRUE, free |-> free]

\* Lines 330-336: the entry's run, a new one if the length changed.
RunFor(free, e, count) ==
    IF e.new_count # count
    THEN get_free(add_free(free, e.new_block, e.new_count), count)
    ELSE [pos |-> e.new_block, ok |-> TRUE, free |-> free]

\* Every record is written with order 1.
WriteCount_OrderOne(u, k, count) ==
    WriteTo(u, k, RunFor(u.free, u.map[k], count), count, 1)

WriteCount(u, k, count) ==
    WriteTo(u, k, RunFor(u.free, u.map[k], count), count, u.order + 1)

\* umap::write(item) for the entry of key k; alloc = FALSE when get_free throws.
write(u, k) == WriteCount(dirty(u, k), k, BlockCount(EncSize(k, u.map[k].val)))

\* The blocks in which file g differs from file f.
Written(f, g) ==
    {b \in 0..(Len(g) - 1) : b >= Len(f) \/ f[b + 1] # g[b + 1]}

\* The umap and its view as one record.
Umap == [map |-> m_map, free |-> m_free, hash |-> m_hash, order |-> m_order,
         error |-> m_error, file |-> file, count |-> m_count, alloc |-> TRUE]

Dirty(m) == {k \in Keys : m[k].in /\ m[k].order = 0}

(***************************************************************************)
(* The map's operations.                                                   *)
(***************************************************************************)
\* The members of a umap that is not constructed.
NoUmap ==
    /\ m_map' = EmptyUmap
    /\ m_free' = EmptyMap
    /\ m_error' = {}
    /\ m_lastf' = UINT32_MAX
    /\ m_order' = 0
    /\ m_flush' = 0
    /\ m_hash' = {}
    /\ m_count' = 0
    /\ w_modify' = FALSE
    /\ w_flush' = FALSE
    /\ new_pos' = 0
    /\ ret' = "idle"
    /\ visited' = {}

\* finalize() without the early return of lines 378-381.
FinalizeEnter_Always(order, flush, back) == pc' = "fin" /\ ret' = back

\* finalize() is entered and returns to back: lines 378-381 return at once
\* when nothing was written since the last flush.
FinalizeEnter(order, flush, back) ==
    IF order <= flush
    THEN pc' = back /\ ret' = "idle"
    ELSE pc' = "fin" /\ ret' = back

\* init without its finalize.
InitWith_NoFinalize(r) ==
    /\ m_map' = r.map
    /\ m_free' = r.free
    /\ m_error' = r.error
    /\ m_lastf' = r.lastf
    /\ m_order' = r.order
    /\ m_flush' = r.flush
    /\ m_hash' = r.hash
    /\ pc' = "idle"
    /\ ret' = "idle"

\* umap::init on the file as it is: reload, then finalize if no terminator
\* was found.
InitWith(r) ==
    /\ m_map' = r.map
    /\ m_free' = r.free
    /\ m_error' = r.error
    /\ m_lastf' = r.lastf
    /\ m_order' = r.order
    /\ m_flush' = r.flush
    /\ m_hash' = r.hash
    /\ IF r.lastf = UINT32_MAX
       THEN FinalizeEnter(r.order, r.flush, "idle")
       ELSE pc' = "idle" /\ ret' = "idle"

Open ==
    /\ pc = "down"
    /\ InitWith(reload(file, Len(file), -1, {}))
    /\ m_count' = Len(file)
    /\ inflight' = NoVals
    /\ how' = "up"
    /\ flushed' = FALSE
    /\ freed' = NoFreed
    /\ damage' = [heads |-> {}, block |-> damage.block, fresh |-> FALSE]
    /\ UNCHANGED <<file, unsynced, w_modify, w_flush, new_pos, envVars, rd, wrote,
                   committed, crashes, visited>>

\* write(f) (fl = FALSE) or flush(f) (fl = TRUE) constructs the writer and
\* calls f.
BeginCall(fl) ==
    /\ pc = "idle"
    /\ pc' = "cb"
    /\ w_modify' = FALSE
    /\ w_flush' = fl
    /\ UNCHANGED <<diskVars, mapVars, ret, new_pos, envVars, ebsVars, ghostVars>>

\* The entry of key k is dirty and has value v.
Modified(u, k, v) ==
    /\ m_map' = [u.map EXCEPT ![k].val = v]
    /\ m_hash' = u.hash

\* writer::add's try_emplace.
TryEmplace(u, k, v) ==
    IF u.map[k].in THEN u ELSE [u EXCEPT !.map[k] = Entry(null_control, v)]

\* f calls writer[k] and stores v through the pointer it gets.
WriterIndex(k, v) ==
    /\ pc = "cb"
    /\ m_map[k].in
    /\ Modified(dirty(Umap, k), k, v)
    /\ w_modify' = TRUE
    /\ UNCHANGED <<diskVars, m_free, m_error, m_lastf, m_order, m_flush, pc, ret,
                   w_flush, new_pos, envVars, ebsVars, ghostVars>>

Added(u) ==
    /\ m_map' = u.map
    /\ m_hash' = u.hash

\* f calls writer.add(k, v): the entry is made with value v if the key is
\* absent, and is dirty either way (Modify = true).
WriterAdd(k, v) ==
    /\ pc = "cb"
    /\ Added(dirty(TryEmplace(Umap, k, v), k))
    /\ w_modify' = TRUE
    /\ UNCHANGED <<diskVars, m_free, m_error, m_lastf, m_order, m_flush, pc, ret,
                   w_flush, new_pos, envVars, ebsVars, ghostVars>>

\* f returns: ~writer runs.
EndCallback ==
    /\ pc = "cb"
    /\ pc' = "drop"
    /\ UNCHANGED <<diskVars, mapVars, ret, writerVars, new_pos, envVars, ebsVars,
                   ghostVars>>

\* The run of count blocks at pos is allocated.
Allocated(pos, count) ==
    IF freed.ins # -1 THEN freed
    ELSE IF count = 3 /\ freed.runs # {} THEN [freed EXCEPT !.ins = pos]
    ELSE NoFreed

\* The umap and the file after write(item) for the entry of key k.
Persisted(u, k) ==
    /\ u.alloc
    /\ freed' = IF m_map[k].new_count # u.map[k].new_count
                THEN Allocated(u.map[k].new_block, u.map[k].new_count)
                ELSE freed
    /\ u.count <= conf.blocks
    /\ m_map' = u.map
    /\ m_free' = u.free
    /\ m_hash' = u.hash
    /\ m_order' = u.order
    /\ m_error' = u.error
    /\ file' = u.file
    /\ m_count' = u.count
    /\ unsynced' = unsynced \cup Written(file, u.file)
    /\ visited' = IF u.map[k].order = 0 THEN visited \cup {k} ELSE visited

\* One turn of the loops of lines 561-567 and 383-389: write(item) for an
\* entry whose order is 0.  The loops visit the entries in the unordered
\* map's order, which is any, each entry once: an entry whose write fails
\* keeps order 0 and is passed.
PersistEntry(k) ==
    /\ \/ pc = "drop" /\ w_modify
       \/ pc = "fin"
    /\ k \in Dirty(m_map) \ visited
    /\ m_order < conf.orders
    /\ Persisted(write(Umap, k), k)
    /\ UNCHANGED <<m_lastf, m_flush, pc, ret, writerVars, new_pos, envVars,
                   ebsVars, committed, inflight, how, flushed, crashes, damage>>

\* ~writer leaves its loop before every entry of order 0 is written.
DropDone_Early ==
    /\ pc = "drop"
    /\ IF w_flush
       THEN FinalizeEnter(m_order, m_flush, "idle")
       ELSE pc' = "idle" /\ ret' = "idle"
    /\ flushed' = (flushed \/ w_flush)
    /\ visited' = {}
    /\ UNCHANGED <<diskVars, mapVars, writerVars, new_pos, envVars, ebsVars, committed,
                   inflight, how, crashes, freed, damage>>

\* ~writer is through with its loop: finalize() for flush(f), else return.
DropDone ==
    /\ pc = "drop"
    /\ ~w_modify \/ Dirty(m_map) \subseteq visited
    /\ IF w_flush
       THEN FinalizeEnter(m_order, m_flush, "idle")
       ELSE pc' = "idle" /\ ret' = "idle"
    /\ flushed' = (flushed \/ w_flush)
    /\ visited' = {}
    /\ UNCHANGED <<diskVars, mapVars, writerVars, new_pos, envVars, ebsVars, committed,
                   inflight, how, crashes, freed, damage>>

\* flush(): finalize() under the lock.
Flush ==
    /\ pc = "idle"
    /\ FinalizeEnter(m_order, m_flush, "idle")
    /\ flushed' = TRUE
    /\ UNCHANGED <<diskVars, mapVars, writerVars, new_pos, envVars, ebsVars, committed,
                   inflight, how, crashes, freed, damage, visited>>

\* finalize, line 391: the first view.flush().
ViewFlush1 ==
    /\ pc = "fin"
    /\ Dirty(m_map) \subseteq visited
    /\ unsynced' = {}
    /\ pc' = "term"
    /\ visited' = {}
    /\ UNCHANGED <<file, m_count, mapVars, ret, writerVars, new_pos, envVars, ebsVars,
                   committed, inflight, how, flushed, crashes, freed, damage>>

\* The terminator's block is kept when its write fails.
TerminatorWritten_Kept(g, w) ==
    /\ w.count <= conf.blocks
    /\ file' = w.file
    /\ m_count' = w.count
    /\ unsynced' = unsynced \cup Written(file, w.file)
    /\ freed' = Allocated(g.pos, 1)
    /\ IF w.ok
       THEN /\ m_order' = m_order + 1
            /\ m_free' = g.free
            /\ new_pos' = g.pos
            /\ committed' = MapVals(m_map)
            /\ pc' = "sync2"
            /\ UNCHANGED <<m_error, ret>>
       ELSE /\ m_error' = m_error \cup {128}
            /\ m_free' = g.free
            /\ pc' = ret
            /\ ret' = "idle"
            /\ UNCHANGED <<m_order, new_pos, committed>>

\* Lines 400-411 with new_pos = g.pos and the outcome w of write_block.
TerminatorWritten(g, w) ==
    /\ w.count <= conf.blocks
    /\ file' = w.file
    /\ m_count' = w.count
    /\ unsynced' = unsynced \cup Written(file, w.file)
    /\ freed' = Allocated(g.pos, 1)
    /\ IF w.ok
       THEN /\ m_order' = m_order + 1
            /\ m_free' = g.free
            /\ new_pos' = g.pos
            /\ committed' = MapVals(m_map)
            /\ pc' = "sync2"
            /\ UNCHANGED <<m_error, ret>>
       ELSE /\ m_error' = m_error \cup {128}
            /\ m_free' = add_free(g.free, g.pos, 1)
            /\ pc' = ret
            /\ ret' = "idle"
            /\ UNCHANGED <<m_order, new_pos, committed>>

TerminatorAt(g) ==
    /\ g.ok
    /\ TerminatorWritten(g, write_block(file, m_count, g.pos,
                                        TermBlock(m_order + 1, m_hash), 0))

\* finalize, lines 393-406: the terminator is written.
WriteTerminator ==
    /\ pc = "term"
    /\ m_order < conf.orders
    /\ TerminatorAt(get_free(m_free, 1))
    /\ UNCHANGED <<m_map, m_lastf, m_flush, m_hash, writerVars, envVars, ebsVars,
                   inflight, how, flushed, crashes, damage, visited>>

\* finalize without its second view.flush().
ViewFlush2_Skipped ==
    /\ pc = "sync2"
    /\ pc' = "commit"
    /\ UNCHANGED <<diskVars, mapVars, ret, writerVars, new_pos, envVars, ebsVars,
                   ghostVars>>

\* finalize, line 409: the second view.flush().
ViewFlush2 ==
    /\ pc = "sync2"
    /\ unsynced' = {}
    /\ pc' = "commit"
    /\ UNCHANGED <<file, m_count, mapVars, ret, writerVars, new_pos, envVars, ebsVars,
                   ghostVars>>

\* Lines 419-426 for one entry: the new run becomes the loaded run.
Promote(e) ==
    IF e.in /\ e.new_count # 0
    THEN [e EXCEPT !.load_block = e.new_block, !.load_count = e.new_count,
                   !.new_block = 0, !.new_count = 0]
    ELSE e

\* The orders in which a loop over m_map (an unordered_map) may visit the
\* keys.
KeyOrders ==
    {s \in [1..Cardinality(Keys) -> Keys] : \A i, j \in DOMAIN s : i # j => s[i] # s[j]}

\* The superseded run is not handed back.
FreeLoadedOf_Keep(fr, e) == fr

\* Line 421 for one entry.
FreeLoadedOf(fr, e) ==
    IF e.in /\ e.new_count # 0 THEN add_free(fr, e.load_block, e.load_count) ELSE fr

RECURSIVE FreeLoaded(_, _, _, _)
\* The add_free calls of the loop of lines 415-427, the keys visited in the
\* order s from its i-th on.
FreeLoaded(fr, m, s, i) ==
    IF i > Len(s) THEN fr ELSE FreeLoaded(FreeLoadedOf(fr, m[s[i]]), m, s, i + 1)

\* The keys whose committed three-block run a one-block run supersedes.
Shrunk(m) == {k \in Keys : m[k].in /\ m[k].load_count = 3 /\ m[k].new_count = 1}

\* finalize, lines 410-427: the old terminator and the superseded runs are
\* freed, the new runs promoted.
FinalizeCommit ==
    /\ pc = "commit"
    /\ \E s \in KeyOrders : m_free' = FreeLoaded(add_free(m_free, m_lastf, 1), m_map, s, 1)
    /\ m_lastf' = new_pos
    /\ m_flush' = m_order
    /\ m_map' = [k \in Keys |-> Promote(m_map[k])]
    /\ pc' = ret
    /\ ret' = "idle"
    /\ freed' = [runs |-> {m_map[k].load_block : k \in Shrunk(m_map)}, ins |-> -1]
    /\ UNCHANGED <<diskVars, m_error, m_order, m_hash, writerVars, new_pos, envVars,
                   ebsVars, committed, inflight, how, flushed, crashes, damage, visited>>

\* ~umap: finalize(), then the members go.
Close ==
    /\ pc = "idle"
    /\ FinalizeEnter(m_order, m_flush, "dtor")
    /\ UNCHANGED <<diskVars, mapVars, writerVars, new_pos, envVars, ebsVars, ghostVars>>

\* ~umap after finalize(): the view is closed, the process is gone.
ViewClose ==
    /\ pc = "dtor"
    /\ pc' = "down"
    /\ NoUmap
    /\ inflight' = MapVals(m_map)
    /\ how' = "close"
    /\ damage' = [damage EXCEPT !.heads = {m_map[k].load_block : k \in {x \in Keys : m_map[x].in}}]
    /\ UNCHANGED <<file, unsynced, envVars, ebsVars, committed, flushed, crashes, freed>>

\* The process dies: the file keeps every block written so far.
Crash ==
    /\ pc # "down"
    /\ crashes < conf.crashes
    /\ pc' = "down"
    /\ NoUmap
    /\ inflight' = MapVals(m_map)
    /\ how' = "crash"
    /\ crashes' = crashes + 1
    /\ UNCHANGED <<file, unsynced, envVars, ebsVars, committed, flushed, freed, damage>>

InitCommon ==
    /\ file = <<>>
    /\ unsynced = {}
    /\ m_count = 0
    /\ m_map = EmptyUmap
    /\ m_free = EmptyMap
    /\ m_error = {}
    /\ m_lastf = UINT32_MAX
    /\ m_order = 0
    /\ m_flush = 0
    /\ m_hash = {}
    /\ pc = "down"
    /\ ret = "idle"
    /\ w_modify = FALSE
    /\ w_flush = FALSE
    /\ new_pos = 0
    /\ rd = [done |-> FALSE, block |-> 0, ident |-> 0, ok |-> FALSE, buf |-> ZeroBlock]
    /\ wrote = EmptyMap
    /\ committed = NoVals
    /\ inflight = NoVals
    /\ how = "new"
    /\ flushed = FALSE
    /\ crashes = 0
    /\ freed = NoFreed
    /\ damage = NoDamage
    /\ visited = {}
    /\ sched = NoSched
    /\ io = {}

Init ==
    /\ InitCommon
    /\ conf = [keys |-> {"a", "b"}, vals |-> SmallVals, blocks |-> MaxBlocks,
               orders |-> MaxOrder, crashes |-> MaxCrashes]

Next ==
    \/ Open
    \/ \E fl \in BOOLEAN : BeginCall(fl)
    \/ \E k \in conf.keys, v \in conf.vals : WriterIndex(k, v)
    \/ \E k \in conf.keys, v \in conf.vals : WriterAdd(k, v)
    \/ EndCallback
    \/ \E k \in Keys : PersistEntry(k)
    \/ DropDone
    \/ Flush
    \/ ViewFlush1
    \/ WriteTerminator
    \/ ViewFlush2
    \/ FinalizeCommit
    \/ Close
    \/ ViewClose
    \/ Crash

Spec == Init /\ [][Next]_vars

\* The map of a client with three keys and one value.
InitKeys ==
    /\ InitCommon
    /\ conf = [keys |-> Keys, vals |-> {1}, blocks |-> MaxBlocks,
               orders |-> MaxOrder, crashes |-> MaxCrashes]

SpecKeys == InitKeys /\ [][Next]_vars

\* The map of a client that stores one-block and three-block values and
\* neither closes the map nor dies.
InitBig ==
    /\ InitCommon
    /\ conf = [keys |-> {"a", "b"}, vals |-> {1} \cup BigVals, blocks |-> MaxBlocksBig,
               orders |-> MaxOrderBig, crashes |-> 0]

NextBig ==
    \/ Open
    \/ \E fl \in BOOLEAN : BeginCall(fl)
    \/ \E k \in conf.keys, v \in conf.vals : WriterIndex(k, v)
    \/ \E k \in conf.keys, v \in conf.vals : WriterAdd(k, v)
    \/ EndCallback
    \/ \E k \in Keys : PersistEntry(k)
    \/ DropDone
    \/ Flush
    \/ ViewFlush1
    \/ WriteTerminator
    \/ ViewFlush2
    \/ FinalizeCommit

SpecBig == InitBig /\ [][NextBig]_vars

(***************************************************************************)
(* The map of a client that stores one-, two- and three-block values and   *)
(* closes the map; while the map is closed, one block of the file other    *)
(* than the terminator in force is overwritten with bytes that do not      *)
(* decrypt.                                                                *)
(***************************************************************************)
\* The blocks of file f that hold a terminator.
TermsOf(f) ==
    {b \in 0..(Len(f) - 1) :
        /\ read_block(f, Len(f), b, 0).ok
        /\ read_block(f, Len(f), b, 0).buf.size = 0
        /\ read_block(f, Len(f), b, 0).buf.order # 0}

\* The terminator of the largest order in file f, or -1.
LiveTerminator(f) ==
    IF TermsOf(f) = {} THEN -1
    ELSE CHOOSE b \in TermsOf(f) :
            \A c \in TermsOf(f) : f[c + 1].pl.order <= f[b + 1].pl.order

\* 4096 bytes that no read_block opens.
Garbage == Seal([ident |-> -1, index |-> -1], ZeroBlock)

\* Block b of the closed store's file is overwritten with garbage.
Corrupt(b) ==
    /\ pc = "down"
    /\ how = "close"
    /\ damage.block = -1
    /\ b < Len(file)
    /\ LiveTerminator(file) # -1
    /\ b # LiveTerminator(file)
    /\ file' = [file EXCEPT ![b + 1] = Garbage]
    /\ damage' = [damage EXCEPT !.block = b, !.fresh = TRUE]
    /\ UNCHANGED <<unsynced, m_count, mapVars, pc, ret, writerVars, new_pos, envVars,
                   ebsVars, committed, inflight, how, flushed, crashes, freed, visited>>

InitRec ==
    /\ InitCommon
    /\ conf = [keys |-> {"a", "b"}, vals |-> {1} \cup MidVals \cup BigVals,
               blocks |-> MaxBlocksRec, orders |-> MaxOrderRec, crashes |-> 0]

NextRec ==
    \/ Open
    \/ \E fl \in BOOLEAN : BeginCall(fl)
    \/ \E k \in conf.keys, v \in conf.vals : WriterIndex(k, v)
    \/ \E k \in conf.keys, v \in conf.vals : WriterAdd(k, v)
    \/ EndCallback
    \/ \E k \in Keys : PersistEntry(k)
    \/ DropDone
    \/ Flush
    \/ ViewFlush1
    \/ WriteTerminator
    \/ ViewFlush2
    \/ FinalizeCommit
    \/ Close
    \/ ViewClose
    \/ \E b \in 0..(MaxBlocksRec - 1) : Corrupt(b)

SpecRec == InitRec /\ [][NextRec]_vars

(***************************************************************************)
(* The block store alone: a client that writes and reads blocks under the  *)
(* container identifiers of Idents, and an outside party that exchanges    *)
(* sealed blocks in the file.                                              *)
(***************************************************************************)
\* The payloads the client writes.
EbsPayloads == {HeadBlock(1, "a", 1), HeadBlock(1, "a", 2)}

\* The file and the view after write_block, whose outcome is w.
EbsWritten(w, i, pl, c) ==
    /\ file' = w.file
    /\ m_count' = w.count
    /\ wrote' = IF w.ok THEN Put(wrote, i, [pl |-> pl, ident |-> c]) ELSE wrote

\* view.write_block(i, pl, c)
EbsWrite(i, pl, c) ==
    /\ pc = "ebs"
    /\ i < MaxBlocksEBS
    /\ EbsWritten(write_block(file, m_count, i, pl, c), i, pl, c)
    /\ UNCHANGED <<unsynced, mapVars, pc, ret, writerVars, new_pos, envVars, rd, ghostVars>>

\* The client's buffer after read_block, whose outcome is r: on failure it
\* holds whatever the decryption left there.
EbsReadDone(r, i, c) ==
    \E garbage \in EbsPayloads \cup {ZeroBlock} :
        rd' = [done |-> TRUE, block |-> i, ident |-> c, ok |-> r.ok,
               buf |-> IF r.ok THEN r.buf ELSE garbage]

\* view.read_block(i, buf, c)
EbsRead(i, c) ==
    /\ pc = "ebs"
    /\ EbsReadDone(read_block(file, m_count, i, c), i, c)
    /\ UNCHANGED <<diskVars, mapVars, pc, ret, writerVars, new_pos, envVars, wrote,
                   ghostVars>>

\* Somebody exchanges the 4096 bytes of blocks i and j in the file.
EbsSwap(i, j) ==
    /\ pc = "ebs"
    /\ i < Len(file) /\ j < Len(file) /\ i # j
    /\ file' = [file EXCEPT ![i + 1] = file[j + 1], ![j + 1] = file[i + 1]]
    /\ wrote' = Erase(Erase(wrote, i), j)
    /\ UNCHANGED <<unsynced, m_count, mapVars, pc, ret, writerVars, new_pos, envVars, rd,
                   ghostVars>>

InitEBS ==
    /\ file = <<>>
    /\ unsynced = {}
    /\ m_count = 0
    /\ m_map = EmptyUmap
    /\ m_free = EmptyMap
    /\ m_error = {}
    /\ m_lastf = UINT32_MAX
    /\ m_order = 0
    /\ m_flush = 0
    /\ m_hash = {}
    /\ pc = "ebs"
    /\ ret = "idle"
    /\ w_modify = FALSE
    /\ w_flush = FALSE
    /\ new_pos = 0
    /\ rd = [done |-> FALSE, block |-> 0, ident |-> 0, ok |-> FALSE, buf |-> ZeroBlock]
    /\ wrote = EmptyMap
    /\ committed = NoVals
    /\ inflight = NoVals
    /\ how = "new"
    /\ flushed = FALSE
    /\ crashes = 0
    /\ freed = NoFreed
    /\ damage = NoDamage
    /\ visited = {}
    /\ sched = NoSched
    /\ io = {}
    /\ conf = [keys |-> {}, vals |-> {}, blocks |-> MaxBlocksEBS, orders |-> 0,
               crashes |-> 0]

NextEBS ==
    \/ \E i \in 0..MaxBlocksEBS, pl \in EbsPayloads, c \in Idents : EbsWrite(i, pl, c)
    \/ \E i \in 0..MaxBlocksEBS, c \in Idents : EbsRead(i, c)
    \/ \E i, j \in 0..MaxBlocksEBS : EbsSwap(i, j)

SpecEBS == InitEBS /\ [][NextEBS]_vars

(***************************************************************************)
(* The map called by the threads of Threads.  Every operation begins with  *)
(* std::lock_guard<std::mutex> lock(m_mutex), which waits until the mutex  *)
(* is free, and the guard is destroyed when the operation returns, after   *)
(* the writer it passed to the callback.  The processor runs one thread    *)
(* and may turn to another between any two steps.                          *)
(***************************************************************************)
\* A lock that never waits.
MutexFree_Always(m) == TRUE

\* std::mutex::lock returns when no thread holds the mutex.
MutexFree(m) == m = 0

\* The context of the thread that runs.
CurCtx == [pc |-> pc, ret |-> ret, w_modify |-> w_modify, w_flush |-> w_flush,
           new_pos |-> new_pos]

\* Where thread t is.
PcOf(t) == IF t = sched.cur THEN pc ELSE sched.ctx[t].pc

\* The processor turns to thread t.
Switch(t) ==
    /\ t # sched.cur
    /\ sched' = [sched EXCEPT !.cur = t, !.ctx[sched.cur] = CurCtx]
    /\ pc' = sched.ctx[t].pc
    /\ ret' = sched.ctx[t].ret
    /\ w_modify' = sched.ctx[t].w_modify
    /\ w_flush' = sched.ctx[t].w_flush
    /\ new_pos' = sched.ctx[t].new_pos
    /\ UNCHANGED <<diskVars, mapVars, conf, io, ebsVars, ghostVars>>

\* Lines 537, 627, 635, 642: the lock_guard is constructed.
Lock ==
    /\ pc = "idle"
    /\ MutexFree(sched.mutex)
    /\ sched' = [sched EXCEPT !.mutex = sched.cur]
    /\ UNCHANGED <<diskVars, mapVars, pc, ret, writerVars, new_pos, conf, io, ebsVars,
                   ghostVars>>

\* The operation returns: the lock_guard is destroyed.
Unlock ==
    /\ pc = "idle"
    /\ sched.mutex = sched.cur
    /\ sched' = [sched EXCEPT !.mutex = 0]
    /\ UNCHANGED <<diskVars, mapVars, pc, ret, writerVars, new_pos, conf, io, ebsVars,
                   ghostVars>>

\* write(f) or flush(f) under the guard.
LockedCall(fl) == sched.mutex = sched.cur /\ BeginCall(fl)

\* flush() under the guard.
LockedFlush == sched.mutex = sched.cur /\ Flush

\* read(f) under the guard: the reader is constructed and f is called.
BeginRead ==
    /\ pc = "idle"
    /\ sched.mutex = sched.cur
    /\ pc' = "rcb"
    /\ UNCHANGED <<diskVars, mapVars, ret, writerVars, new_pos, envVars, ebsVars,
                   ghostVars>>

\* f calls reader[k]: it gets the value, or nullptr (0).
ReaderIndex(k) ==
    /\ pc = "rcb"
    /\ rd' = [key |-> k, val |-> MapVals(m_map)[k], dirty |-> k \in Dirty(m_map)]
    /\ UNCHANGED <<diskVars, mapVars, pc, ret, writerVars, new_pos, envVars, wrote,
                   ghostVars>>

\* f returns.
EndRead ==
    /\ pc = "rcb"
    /\ pc' = "idle"
    /\ UNCHANGED <<diskVars, mapVars, ret, writerVars, new_pos, envVars, ebsVars,
                   ghostVars>>

\* The map after init on an empty file, before any thread calls it.
InitThreads ==
    /\ file = <<>>
    /\ unsynced = {}
    /\ m_count = 0
    /\ m_map = EmptyUmap
    /\ m_free = EmptyMap
    /\ m_error = {}
    /\ m_lastf = UINT32_MAX
    /\ m_order = 0
    /\ m_flush = 0
    /\ m_hash = {}
    /\ pc = "idle"
    /\ ret = "idle"
    /\ w_modify = FALSE
    /\ w_flush = FALSE
    /\ new_pos = 0
    /\ rd = [key |-> NoKey, val |-> 0, dirty |-> FALSE]
    /\ wrote = EmptyMap
    /\ committed = NoVals
    /\ inflight = NoVals
    /\ how = "up"
    /\ flushed = FALSE
    /\ crashes = 0
    /\ freed = NoFreed
    /\ damage = NoDamage
    /\ visited = {}
    /\ sched = NoSched
    /\ io = {}
    /\ conf = [keys |-> {"a", "b"}, vals |-> {1}, blocks |-> MaxBlocksThr,
               orders |-> MaxOrderThr, crashes |-> 0]

NextThreads ==
    \/ \E t \in Threads : Switch(t)
    \/ Lock
    \/ Unlock
    \/ \E fl \in BOOLEAN : LockedCall(fl)
    \/ LockedFlush
    \/ BeginRead
    \/ \E k \in conf.keys : ReaderIndex(k)
    \/ EndRead
    \/ \E k \in conf.keys, v \in conf.vals : WriterIndex(k, v)
    \/ \E k \in conf.keys, v \in conf.vals : WriterAdd(k, v)
    \/ EndCallback
    \/ \E k \in Keys : PersistEntry(k)
    \/ DropDone
    \/ ViewFlush1
    \/ WriteTerminator
    \/ ViewFlush2
    \/ FinalizeCommit

SpecThreads == InitThreads /\ [][NextThreads]_vars

(***************************************************************************)
(* The whole interface of umap::writer and umap::reader, called by one     *)
(* thread: the calls that change nothing are actions too, and rd records   *)
(* what they return.                                                       *)
(***************************************************************************)
\* What a lookup of key k returns: the value, or nullptr (0).
Found(k) == [key |-> k, val |-> MapVals(m_map)[k], dirty |-> k \in Dirty(m_map)]

\* f calls writer[k] for a key that is not in the map: find fails and nullptr
\* is returned before m_modify is set (lines 580-583).
WriterIndexAbsent(k) ==
    /\ pc = "cb"
    /\ ~m_map[k].in
    /\ rd' = [key |-> k, val |-> 0, dirty |-> FALSE]
    /\ UNCHANGED <<diskVars, mapVars, pc, ret, writerVars, new_pos, envVars, wrote,
                   ghostVars>>

\* add<true> in the place of add<false>.
WriterAddKeep_Modify(k, v) == WriterAdd(k, v)

\* f calls writer.add<false>(k, v): the entry is made, and is dirty, only if
\* the key was absent (Modify || res.second, line 601).
WriterAddKeep(k, v) ==
    /\ pc = "cb"
    /\ IF m_map[k].in
       THEN UNCHANGED <<m_map, m_hash, w_modify>>
       ELSE Added(dirty(TryEmplace(Umap, k, v), k)) /\ w_modify' = TRUE
    /\ UNCHANGED <<diskVars, m_free, m_error, m_lastf, m_order, m_flush, pc, ret,
                   w_flush, new_pos, envVars, ebsVars, ghostVars>>

\* f calls writer.get(k): find, and nothing else.
WriterGet(k) ==
    /\ pc = "cb"
    /\ rd' = Found(k)
    /\ UNCHANGED <<diskVars, mapVars, pc, ret, writerVars, new_pos, envVars, wrote,
                   ghostVars>>

NextApi ==
    \/ Lock
    \/ Unlock
    \/ \E fl \in BOOLEAN : LockedCall(fl)
    \/ LockedFlush
    \/ BeginRead
    \/ \E k \in conf.keys : ReaderIndex(k)
    \/ EndRead
    \/ \E k \in conf.keys, v \in conf.vals : WriterIndex(k, v)
    \/ \E k \in conf.keys : WriterIndexAbsent(k)
    \/ \E k \in conf.keys, v \in conf.vals : WriterAdd(k, v)
    \/ \E k \in conf.keys, v \in conf.vals : WriterAddKeep(k, v)
    \/ \E k \in conf.keys : WriterGet(k)
    \/ EndCallback
    \/ \E k \in Keys : PersistEntry(k)
    \/ DropDone
    \/ ViewFlush1
    \/ WriteTerminator
    \/ ViewFlush2
    \/ FinalizeCommit

SpecApi == InitThreads /\ [][NextApi]_vars

(***************************************************************************)
(* The byte stream of sfs::view: read(offset, buf, size) and               *)
(* write(offset, buf, size) with buf not null, over blocks whose payload   *)
(* is a sequence of BlockBytes bytes.                                      *)
(***************************************************************************)
\* s_zeros
Zeros == [i \in 1..BlockBytes |-> 0]

\* The buffers the client writes: bytes 1 and 2 in turn.
StreamData == {[i \in 1..n |-> ((i + v) % 2) + 1] : n \in 0..MaxStreamLen, v \in 0..1}

\* view::size()
size(cnt) == cnt * BlockBytes

\* new_rs / 4096 of trunc
NewBlocks(new_size) ==
    (new_size \div BlockBytes) + (IF new_size % BlockBytes # 0 THEN 1 ELSE 0)

RECURSIVE ZeroFill(_, _, _, _)
ZeroFillNext(w, i, n) ==
    IF ~w.ok THEN [ret |-> i * BlockBytes, file |-> w.file, count |-> w.count]
    ELSE ZeroFill(w.file, w.count, i + 1, n)

\* trunc, lines 419-440: blocks i..n-1 are written with zeros.
ZeroFill(f, cnt, i, n) ==
    IF i >= n THEN [ret |-> n * BlockBytes, file |-> f, count |-> cnt]
    ELSE ZeroFillNext(write_block(f, cnt, i, Zeros, 0), i, n)

\* trunc that cuts the file and forgets to cut m_count.
trunc_Keep(f, cnt, new_size) ==
    IF cnt = NewBlocks(new_size) \/ new_size > TruncLimit
    THEN [ret |-> size(cnt), file |-> f, count |-> cnt]
    ELSE IF NewBlocks(new_size) < cnt
         THEN [ret |-> NewBlocks(new_size) * BlockBytes,
               file |-> SubSeq(f, 1, NewBlocks(new_size)), count |-> cnt]
         ELSE ZeroFill(f, cnt, cnt, NewBlocks(new_size))

\* view::trunc: [ret, file, count].
trunc(f, cnt, new_size) ==
    IF cnt = NewBlocks(new_size) \/ new_size > TruncLimit
    THEN [ret |-> size(cnt), file |-> f, count |-> cnt]
    ELSE IF NewBlocks(new_size) < cnt
         THEN [ret |-> NewBlocks(new_size) * BlockBytes,
               file |-> SubSeq(f, 1, NewBlocks(new_size)), count |-> NewBlocks(new_size)]
         ELSE ZeroFill(f, cnt, cnt, NewBlocks(new_size))

\* std::min(size - result, block_size - _mod)
StreamChunk(offset, sz, result) ==
    Min({sz - result, BlockBytes - (offset % BlockBytes)})

\* The memcpy with the bytes put at the start of m_buf.
Patched_AtStart(m_buf, mod, data, result, n) ==
    [i \in 1..BlockBytes |-> IF i <= n THEN data[result + i] ELSE m_buf[i]]

\* std::memcpy(m_buf + _mod, buf + result, _size)
Patched(m_buf, mod, data, result, n) ==
    [i \in 1..BlockBytes |->
        IF i > mod /\ i <= mod + n THEN data[result + (i - mod)] ELSE m_buf[i]]

RECURSIVE ReadLoop(_, _, _, _, _)
ReadStep(f, cnt, offset, sz, acc, n, r) ==
    IF ~r.ok THEN acc
    ELSE ReadLoop(f, cnt, offset + n, sz,
                  acc \o SubSeq(r.buf, (offset % BlockBytes) + 1, (offset % BlockBytes) + n))

\* The loop of view::read, acc being the bytes copied to buf so far.
ReadLoop(f, cnt, offset, sz, acc) ==
    IF Len(acc) >= sz THEN acc
    ELSE ReadStep(f, cnt, offset, sz, acc, StreamChunk(offset, sz, Len(acc)),
                  read_block(f, cnt, offset \div BlockBytes, 0))

\* view::read(offset, buf, size): the bytes it leaves in buf; their number is
\* what it returns.
view_read(f, cnt, offset, sz) == ReadLoop(f, cnt, offset, sz, <<>>)

RECURSIVE WriteLoop(_, _, _, _, _, _)
WriteDone(w, fsize, offset, data, result, n) ==
    IF ~w.ok THEN [ret |-> result, file |-> w.file, count |-> w.count]
    ELSE WriteLoop(w.file, w.count, fsize, offset + n, data, result + n)

\* Lines 514-535 for a part of a block, m_buf holding r.buf.
WritePart(f, cnt, fsize, offset, data, result, n, r) ==
    IF ~r.ok THEN [ret |-> result, file |-> f, count |-> cnt]
    ELSE WriteDone(write_block(f, cnt, offset \div BlockBytes,
                               Patched(r.buf, offset % BlockBytes, data, result, n), 0),
                   fsize, offset, data, result, n)

\* Lines 500-535 for a chunk of n bytes.
WriteStep(f, cnt, fsize, offset, data, result, n) ==
    IF n = BlockBytes
    THEN WriteDone(write_block(f, cnt, offset \div BlockBytes,
                               SubSeq(data, result + 1, result + n), 0),
                   fsize, offset, data, result, n)
    ELSE IF offset >= fsize
         THEN WritePart(f, cnt, fsize, offset, data, result, n, [ok |-> TRUE, buf |-> Zeros])
         ELSE WritePart(f, cnt, fsize, offset, data, result, n,
                        read_block(f, cnt, offset \div BlockBytes, 0))

\* The loop of view::write: [ret, file, count].
WriteLoop(f, cnt, fsize, offset, data, result) ==
    IF result >= Len(data) THEN [ret |-> result, file |-> f, count |-> cnt]
    ELSE WriteStep(f, cnt, fsize, offset, data, result,
                   StreamChunk(offset, Len(data), result))

\* Lines 479-494 with t the outcome of trunc(fneed).
WriteExtended(t, fneed, offset, data) ==
    IF t.ret # fneed THEN [ret |-> 0, file |-> t.file, count |-> t.count]
    ELSE WriteLoop(t.file, t.count, fneed, offset, data, 0)

\* Lines 476-479.
WriteFrom(f, cnt, fsize, fneed, offset, data) ==
    IF fsize < fneed
    THEN IF fneed - fsize > GapLimit THEN [ret |-> 0, file |-> f, count |-> cnt]
         ELSE WriteExtended(trunc(f, cnt, fneed), fneed, offset, data)
    ELSE WriteLoop(f, cnt, fsize, offset, data, 0)

\* view::write(offset, buf, size) with the bytes of buf in data.
view_write(f, cnt, offset, data) ==
    WriteFrom(f, cnt, size(cnt), offset - (offset % BlockBytes), offset, data)

\* The client's call write(offset, data, Len(data)) and its outcome w.
StreamWritten(w, offset, data) ==
    /\ file' = w.file
    /\ m_count' = w.count
    /\ rd' = [op |-> "write", offset |-> offset, data |-> data, ret |-> w.ret,
              n |-> rd.n + 1]

StreamWrite(offset, data) ==
    /\ pc = "stream"
    /\ rd.n < MaxStreamOps
    /\ StreamWritten(view_write(file, m_count, offset, data), offset, data)
    /\ UNCHANGED <<unsynced, mapVars, pc, ret, writerVars, new_pos, envVars, wrote,
                   ghostVars>>

\* The client's call read(offset, buf, sz).
StreamRead(offset, sz) ==
    /\ pc = "stream"
    /\ rd.n < MaxStreamOps
    /\ rd' = [op |-> "read", offset |-> offset,
              data |-> view_read(file, m_count, offset, sz),
              ret |-> Len(view_read(file, m_count, offset, sz)), n |-> rd.n + 1]
    /\ UNCHANGED <<diskVars, mapVars, pc, ret, writerVars, new_pos, envVars, wrote,
                   ghostVars>>

\* Block b of the file is overwritten with garbage by somebody else.
StreamDamage(b) ==
    /\ pc = "stream"
    /\ rd.n < MaxStreamOps
    /\ b < Len(file)
    /\ file' = [file EXCEPT ![b + 1] = Garbage]
    /\ rd' = [op |-> "damage", offset |-> b, data |-> <<>>, ret |-> 0, n |-> rd.n + 1]
    /\ UNCHANGED <<unsynced, m_count, mapVars, pc, ret, writerVars, new_pos, envVars,
                   wrote, ghostVars>>

InitStream ==
    /\ file = <<>>
    /\ unsynced = {}
    /\ m_count = 0
    /\ m_map = EmptyUmap
    /\ m_free = EmptyMap
    /\ m_error = {}
    /\ m_lastf = UINT32_MAX
    /\ m_order = 0
    /\ m_flush = 0
    /\ m_hash = {}
    /\ pc = "stream"
    /\ ret = "idle"
    /\ w_modify = FALSE
    /\ w_flush = FALSE
    /\ new_pos = 0
    /\ rd = [op |-> "none", offset |-> 0, data |-> <<>>, ret |-> 0, n |-> 0]
    /\ wrote = EmptyMap
    /\ committed = NoVals
    /\ inflight = NoVals
    /\ how = "new"
    /\ flushed = FALSE
    /\ crashes = 0
    /\ freed = NoFreed
    /\ damage = NoDamage
    /\ visited = {}
    /\ sched = NoSched
    /\ io = {}
    /\ conf = [keys |-> {}, vals |-> {}, blocks |-> 0, orders |-> 0, crashes |-> 0]

NextStream ==
    \/ \E offset \in 0..MaxOffset, data \in StreamData : StreamWrite(offset, data)
    \/ \E offset \in 0..MaxOffset, sz \in 0..MaxStreamLen : StreamRead(offset, sz)
    \/ \E b \in 0..NewBlocks(MaxOffset + MaxStreamLen) : StreamDamage(b)

SpecStream == InitStream /\ [][NextStream]_vars

(***************************************************************************)
(* sstl: the serialization the map's records are written with.  A C++      *)
(* type is given by a record: IntT(w), an arithmetic type of w bytes;      *)
(* BoolT; VecT(w), std::vector or std::basic_string of IntT(w); ArrT(w, n),*)
(* std::array<IntT(w), n>; DocT(f), a class whose serialize calls ctx on   *)
(* fields of the types f in turn; SetT(w), std::set<IntT(w)>; MapT(w, t),  *)
(* std::map<IntT(w), t>; NullT, ctx.null().  Its values are numbers,       *)
(* booleans, sequences, sets and functions.                                *)
(***************************************************************************)
IntT(w) == [k |-> "int", w |-> w]
BoolT == [k |-> "bool"]
VecT(w) == [k |-> "vec", w |-> w]
ArrT(w, n) == [k |-> "arr", w |-> w, n |-> n]
DocT(f) == [k |-> "doc", f |-> f]
SetT(w) == [k |-> "set", w |-> w]
MapT(w, t) == [k |-> "map", w |-> w, t |-> t]
NullT == [k |-> "null"]

\* sstl::byte
terminator == 0
document == 1
bit_false == 2
bit_true == 3
u8_value == 4
u8_sized == 5
u32_value == 6
u32_sized == 7
u64_value == 8
u64_sized == 9
null_value == 31

\* context_data::max_level()
max_level == 128

\* sizeof(T) of the container type T = std::vector<E>, which the writer of
\* traverse_container_simple multiplies by: three pointers on a 64-bit ABI.
SizeofVector == 24

\* std::be_t<T>: the w bytes of v, the most significant first.
BE(v, w) == [i \in 1..w |-> (v \div (256 ^ (w - i))) % 256]

RECURSIVE FromBE(_, _, _)
\* The value of the w bytes of b from position p on.
FromBE(b, p, w) == IF w = 0 THEN 0 ELSE FromBE(b, p, w - 1) * 256 + b[p + w - 1]

\* size_type::type_sized, size_type::type_value and operator+=(size_type).
type_sized(n) == IF n < 256 THEN u8_sized ELSE IF n < 2 ^ 32 THEN u32_sized ELSE u64_sized
type_value(n) == IF n < 256 THEN u8_value ELSE IF n < 2 ^ 32 THEN u32_value ELSE u64_value
SizeBytes(n) == IF n < 256 THEN <<n>> ELSE IF n < 2 ^ 32 THEN BE(n, 4) ELSE BE(n, 8)

\* traverse<simple>::my_type
my_type(w) ==
    IF w = 1 THEN u8_value ELSE IF w = 4 THEN u32_value ELSE IF w = 8 THEN u64_value
    ELSE IF w < 256 THEN u8_sized ELSE u32_sized

\* T{} of a type, what a freshly constructed object holds.
RECURSIVE Default(_)
Default(ty) ==
    CASE ty.k = "int" -> 0
      [] ty.k = "bool" -> FALSE
      [] ty.k = "vec" -> <<>>
      [] ty.k = "arr" -> [i \in 1..ty.n |-> 0]
      [] ty.k = "doc" -> [i \in 1..Len(ty.f) |-> Default(ty.f[i])]
      [] ty.k = "set" -> {}
      [] ty.k = "map" -> EmptyMap
      [] ty.k = "null" -> 0

\* The elements of a set of numbers in std::set's order.
RECURSIVE Sorted(_)
Sorted(S) == IF S = {} THEN <<>> ELSE <<Min(S)>> \o Sorted(S \ {Min(S)})

\* The bytes of the elements of a container of IntT(w), from the i-th on.
RECURSIVE EncElems(_, _, _)
EncElems(w, v, i) == IF i > Len(v) THEN <<>> ELSE BE(v[i], w) \o EncElems(w, v, i + 1)

\* traverse_container_simple, writing: sizeof_T is sizeof(T), T being the
\* container.
EncSimple(w, v, sizeof_T) ==
    IF Len(v) = 0 THEN <<bit_false>>
    ELSE IF w = 1 THEN <<type_sized(Len(v))>> \o SizeBytes(Len(v)) \o v
    ELSE <<type_sized(Len(v) * sizeof_T)>> \o SizeBytes(Len(v) * sizeof_T)
         \o EncElems(w, v, 1)

\* traverse<simple>, writing.
EncInt(w, v) ==
    IF v = 0 THEN <<bit_false>>
    ELSE IF my_type(w) \in {u8_sized, u32_sized}
         THEN <<type_sized(w)>> \o SizeBytes(w) \o BE(v, w)
         ELSE <<my_type(w)>> \o BE(v, w)

\* traverse<size_type>, writing.
EncCount(n) == IF n = 0 THEN <<bit_false>> ELSE <<type_value(n)>> \o SizeBytes(n)

RECURSIVE Enc(_, _)
RECURSIVE EncFields(_, _, _)
RECURSIVE EncKeys(_, _, _)
RECURSIVE EncPairs(_, _, _, _)

\* ctx(a, b, ...): the fields of types f with values v, from the i-th on.
EncFields(f, v, i) ==
    IF i > Len(f) THEN <<>> ELSE Enc(f[i], v[i]) \o EncFields(f, v, i + 1)

\* The keys of a set, in the order s.
EncKeys(w, s, i) ==
    IF i > Len(s) THEN <<>> ELSE EncInt(w, s[i]) \o EncKeys(w, s, i + 1)

\* The keys and values of the map m, the keys in the order s.
EncPairs(ty, m, s, i) ==
    IF i > Len(s) THEN <<>>
    ELSE EncInt(ty.w, s[i]) \o Enc(ty.t, m[s[i]]) \o EncPairs(ty, m, s, i + 1)

\* traverse<writing, T>::op: the bytes written for value v of type ty.
Enc(ty, v) ==
    CASE ty.k = "int" -> EncInt(ty.w, v)
      [] ty.k = "bool" -> IF v THEN <<bit_true>> ELSE <<bit_false>>
      [] ty.k = "vec" -> EncSimple(ty.w, v, SizeofVector)
      [] ty.k = "arr" -> EncSimple(ty.w, v, ty.n * ty.w)
      [] ty.k = "doc" -> <<document>> \o EncFields(ty.f, v, 1) \o <<terminator>>
      [] ty.k = "set" ->
            IF v = {} THEN <<bit_false>>
            ELSE <<document>> \o EncCount(Cardinality(v)) \o EncKeys(ty.w, Sorted(v), 1)
                 \o <<terminator>>
      [] ty.k = "map" ->
            IF DOMAIN v = {} THEN <<bit_false>>
            ELSE <<document>> \o EncCount(Cardinality(DOMAIN v))
                 \o EncPairs(ty, v, Sorted(DOMAIN v), 1) \o <<terminator>>
      [] ty.k = "null" -> <<null_value>>

\* sstl::save: the buffer for the fields f with values v.
save(f, v) == EncFields(f, v, 1)

(***************************************************************************)
(* sstl, reading.  The context_data is st = [b, p, lvl, ub]: the buffer,   *)
(* begin as the position of the next byte (end is Len(b) + 1), psize, and  *)
(* ub: a value that was never written was used, or a byte past the end of  *)
(* the buffer was read.  A traverse gives [st, val], val being the object  *)
(* it was called for.                                                      *)
(***************************************************************************)
End(st) == Len(st.b) + 1

\* *begin
Peek(st) == st.b[st.p]

\* begin is past end: remaining() wraps around.
Over(st) == st.p > End(st)

\* remaining() >= n
RemGE(st, n) == Over(st) \/ End(st) - st.p >= n

Advance(st, n) == [st EXCEPT !.p = @ + n]
ToEnd(st) == [st EXCEPT !.p = End(st)]
Undefined(st) == [st EXCEPT !.ub = TRUE]

\* context_data::read(out, n), for what it does to begin.
read(st, n) == IF RemGE(st, n) THEN Advance(st, n) ELSE ToEnd(st)

\* The bytes of a size of the given type byte.
SizeWidth(type) ==
    IF type \in {u8_value, u8_sized} THEN 1
    ELSE IF type \in {u32_value, u32_sized} THEN 4 ELSE 8

\* read_size once the w bytes of the size are read: n is the size.
SizeChecked(st, n) ==
    IF End(st) - st.p >= n THEN [st |-> st, n |-> n] ELSE [st |-> ToEnd(st), n |-> 0]

\* context_data::read_size: [st, n].
read_size(st, type) ==
    IF Over(st) THEN [st |-> Undefined(st), n |-> 0]
    ELSE IF ~RemGE(st, SizeWidth(type)) THEN [st |-> ToEnd(st), n |-> 0]
    ELSE SizeChecked(Advance(st, SizeWidth(type)), FromBE(st.b, st.p, SizeWidth(type)))

RECURSIVE skip(_, _)
\* The end of one turn of skip's loop, lines 425-428.
SkipOn(st, level) == IF level = 0 THEN st ELSE skip(st, level)

SkipSized(r, level) == SkipOn(Advance(r.st, r.n), level)

\* The switch of skip for the byte c, st being past it.
SkipByte(st, level, c) ==
    IF c = terminator THEN SkipOn(st, level - 1)
    ELSE IF c = document THEN skip(st, level + 1)
    ELSE IF c \in {null_value, bit_false, bit_true} THEN SkipOn(st, level)
    ELSE IF c \in {u8_value, u32_value, u64_value} THEN SkipOn(read(st, SizeWidth(c)), level)
    ELSE IF c \in {u8_sized, u32_sized, u64_sized} THEN SkipSized(read_size(st, c), level)
    ELSE IF c < null_value THEN ToEnd(st)
    ELSE skip(st, level)

\* context_data::skip(level)
skip(st, level) ==
    IF st.p < End(st) /\ (level # 0 \/ Peek(st) # terminator)
    THEN SkipByte(Advance(st, 1), level, Peek(st))
    ELSE st

RECURSIVE drop(_)
\* context_data::drop()
drop(st) == IF st.p < End(st) /\ Peek(st) # terminator THEN drop(skip(st, 0)) ELSE st

\* A traverse that leaves the object as it is.
Kept(st, arg) == [st |-> st, val |-> arg]

\* Lines 817-831: the value of a type of w bytes after its type byte.
IntSized(w, r, arg) ==
    IF r.n = w THEN [st |-> Advance(r.st, w), val |-> FromBE(r.st.b, r.st.p, w)]
    ELSE Kept(drop(Advance(r.st, w)), arg)

IntPlain(w, st, arg) ==
    IF Over(st) THEN Kept(Undefined(st), arg)
    ELSE IF RemGE(st, w) THEN [st |-> Advance(st, w), val |-> FromBE(st.b, st.p, w)]
    ELSE Kept(Undefined(ToEnd(st)), arg)

\* traverse<reading, simple>::op
TravInt(w, st, arg) ==
    IF st.p < End(st)
    THEN IF Peek(st) = bit_false THEN [st |-> Advance(st, 1), val |-> 0]
         ELSE IF Peek(st) = my_type(w)
              THEN IF my_type(w) \in {u8_sized, u32_sized}
                   THEN IntSized(w, read_size(Advance(st, 1), my_type(w)), arg)
                   ELSE IntPlain(w, Advance(st, 1), arg)
         ELSE IF Peek(st) = null_value THEN Kept(Advance(st, 1), arg)
         ELSE Kept(drop(st), arg)
    ELSE Kept(st, arg)

\* traverse<reading, bool>::op
TravBool(st, arg) ==
    IF st.p = End(st) THEN Kept(st, arg)
    ELSE IF Over(st) THEN Kept(Undefined(st), arg)
    ELSE IF Peek(st) \in {bit_false, bit_true}
         THEN [st |-> Advance(st, 1), val |-> Peek(st) = bit_true]
    ELSE IF Peek(st) = null_value THEN Kept(Advance(st, 1), arg)
    ELSE Kept(drop(st), arg)

SizeRead(r) == [st |-> r.st, val |-> r.n]

\* traverse<reading, size_type>::op
TravSize(st, arg) ==
    IF st.p = End(st) THEN Kept(st, arg)
    ELSE IF Over(st) THEN Kept(Undefined(st), arg)
    ELSE IF Peek(st) = bit_false THEN [st |-> Advance(st, 1), val |-> 0]
    ELSE IF Peek(st) \in {u8_value, u32_value, u64_value}
         THEN SizeRead(read_size(Advance(st, 1), Peek(st)))
    ELSE IF Peek(st) = null_value THEN Kept(Advance(st, 1), arg)
    ELSE Kept(drop(st), arg)

\* is_simple<T>::resize(arg, n): n elements T{} in a vector or a string, the
\* array filled with T{}.
Resized(ty, n) == IF ty.k = "arr" THEN [i \in 1..ty.n |-> 0] ELSE [i \in 1..n |-> 0]

\* Lines 609-613: bytes are copied to the container a.
SimpleBytes(a, st, n) ==
    [st |-> Advance(st, n),
     val |-> [i \in 1..Len(a) |-> IF i <= n THEN st.b[st.p + i - 1] ELSE a[i]]]

\* Lines 615-629: elements of w bytes are read into the container a while
\* begin < last; an element the buffer has no bytes for is not defined.
SimpleElems(a, st, n, w, tried) ==
    IF tried * w > End(st) - st.p
    THEN [st |-> Undefined(Advance(st, w * n)), val |-> a]
    ELSE [st |-> Advance(st, w * n),
          val |-> [i \in 1..Len(a) |->
                     IF i <= tried THEN FromBE(st.b, st.p + (i - 1) * w, w) ELSE a[i]]]

\* Lines 604-632 with what read_size gave.
SimpleSized(ty, r) ==
    IF r.st.ub THEN Kept(r.st, Resized(ty, r.n))
    ELSE IF ty.w = 1 THEN SimpleBytes(Resized(ty, r.n), r.st, r.n)
    ELSE SimpleElems(Resized(ty, r.n), r.st, r.n, ty.w,
                     Min({Len(Resized(ty, r.n)), r.n}))

\* traverse_container_simple, reading.
TravSimple(ty, st, arg) ==
    IF st.p = End(st) THEN Kept(st, arg)
    ELSE IF Over(st) THEN Kept(Undefined(st), arg)
    ELSE IF Peek(st) = bit_false THEN [st |-> Advance(st, 1), val |-> Resized(ty, 0)]
    ELSE IF Peek(st) \in {u8_sized, u32_sized, u64_sized}
         THEN SimpleSized(ty, read_size(Advance(st, 1), Peek(st)))
    ELSE IF Peek(st) = null_value THEN Kept(Advance(st, 1), arg)
    ELSE Kept(drop(st), arg)

RECURSIVE Trav(_, _, _)
RECURSIVE TravFields(_, _, _, _)
RECURSIVE SetLoop(_, _, _)
RECURSIVE MapLoop(_, _, _)

\* ctx(a, b, ...), reading: the fields of types f from the i-th on.
FieldDone(f, r, vals, i) == TravFields(f, r.st, [vals EXCEPT ![i] = r.val], i + 1)

TravFields(f, st, vals, i) ==
    IF i > Len(f) THEN [st |-> st, val |-> vals]
    ELSE FieldDone(f, Trav(f[i], st, vals[i]), vals, i)

\* Lines 554-559 and 750-754: the document is left.
Leave(r) == [st |-> [skip(r.st, 1) EXCEPT !.lvl = @ - 1], val |-> r.val]

Enter(st) == [Advance(st, 1) EXCEPT !.lvl = @ + 1]

\* traverse<reading, T>::op for a class with serialize.
TravDoc(ty, st, arg) ==
    IF st.p = End(st) THEN Kept(st, arg)
    ELSE IF Over(st) THEN Kept(Undefined(st), arg)
    ELSE IF Peek(st) = document
         THEN IF st.lvl + 1 < max_level
              THEN Leave(TravFields(ty.f, Enter(st), arg, 1))
              ELSE Leave(Kept(Enter(st), arg))
    ELSE IF Peek(st) = null_value THEN Kept(Advance(st, 1), arg)
    ELSE Kept(drop(st), arg)

\* while (ctx) { K key{}; ctx(key); set.emplace_hint(...); }
SetAdd(w, r, acc) == SetLoop(w, r.st, acc \cup {r.val})

SetLoop(w, st, acc) ==
    IF st.p < End(st) /\ Peek(st) # terminator
    THEN SetAdd(w, TravInt(w, st, 0), acc)
    ELSE [st |-> st, val |-> acc]

SetAfterSize(w, r) == SetLoop(w, r.st, {})

\* while (ctx) { K key{}; ctx(key); ctx(map.emplace_hint(...).first->second); }
MapPut(ty, key, r, acc) == MapLoop(ty, r.st, Put(acc, key, r.val))

MapAdd(ty, r, acc) ==
    MapPut(ty, r.val,
           Trav(ty.t, r.st, IF r.val \in DOMAIN acc THEN acc[r.val] ELSE Default(ty.t)),
           acc)

MapLoop(ty, st, acc) ==
    IF st.p < End(st) /\ Peek(st) # terminator
    THEN MapAdd(ty, TravInt(ty.w, st, 0), acc)
    ELSE [st |-> st, val |-> acc]

MapAfterSize(ty, r) == MapLoop(ty, r.st, EmptyMap)

\* The serialize of std::set and std::map, reading, in the document.
Elements(ty, st) ==
    IF ty.k = "set" THEN SetAfterSize(ty.w, TravSize(st, 0))
    ELSE MapAfterSize(ty, TravSize(st, 0))

\* traverse_container, reading.
TravContainer(ty, st, arg) ==
    IF st.p = End(st) THEN Kept(st, arg)
    ELSE IF Over(st) THEN Kept(Undefined(st), arg)
    ELSE IF Peek(st) = bit_false THEN [st |-> Advance(st, 1), val |-> Default(ty)]
    ELSE IF Peek(st) = document
         THEN IF st.lvl + 1 < max_level
              THEN Leave(Elements(ty, Enter(st)))
              ELSE Leave(Kept(Enter(st), Default(ty)))
    ELSE IF Peek(st) = null_value THEN Kept(Advance(st, 1), arg)
    ELSE Kept(drop(st), arg)

\* traverse<reading, T>::op
Trav(ty, st, arg) ==
    IF st.ub THEN Kept(st, arg)
    ELSE CASE ty.k = "int" -> TravInt(ty.w, st, arg)
           [] ty.k = "bool" -> TravBool(st, arg)
           [] ty.k \in {"vec", "arr"} -> TravSimple(ty, st, arg)
           [] ty.k = "doc" -> TravDoc(ty, st, arg)
           [] ty.k \in {"set", "map"} -> TravContainer(ty, st, arg)
           [] ty.k = "null" -> Kept(skip(st, 0), arg)

\* sstl::load into freshly constructed objects of the types f: [st, val].
load(b, f) ==
    TravFields(f, [b |-> b, p |-> 1, lvl |-> 0, ub |-> FALSE],
               [i \in 1..Len(f) |-> Default(f[i])], 1)

(***************************************************************************)
(* A client of sstl: it saves an object of one or two fields with the      *)
(* serialize of one version of its class (old) and loads the buffer with   *)
(* the serialize of another (new): the same, one with a field appended, or *)
(* one with a field replaced by ctx.null().                                *)
(***************************************************************************)
\* The types of the fields.
FieldTypes ==
    {IntT(1), IntT(2), IntT(4), BoolT, VecT(1), VecT(2), ArrT(2, 2),
     DocT(<<IntT(1), DocT(<<BoolT>>)>>), SetT(1), MapT(1, IntT(2))}

\* The numbers the client stores in a type of w bytes.
IntVals(w) == IF w = 1 THEN {0, 5} ELSE {0, 261}

\* The sequences of at most n elements of S.
SeqsUpTo(S, n) == UNION {[1..m -> S] : m \in 0..n}

\* The functions from the subsets of K to V.
MapsOver(K, V) == UNION {[D -> V] : D \in SUBSET K}

RECURSIVE ValuesOf(_)
RECURSIVE Tuples(_, _)
\* The values of the fields of types f from the i-th on.
Tuples(f, i) ==
    IF i > Len(f) THEN {<<>>}
    ELSE {<<a>> \o t : a \in ValuesOf(f[i]), t \in Tuples(f, i + 1)}

\* The values the client stores in a field of type ty.
ValuesOf(ty) ==
    CASE ty.k = "int" -> IntVals(ty.w)
      [] ty.k = "bool" -> BOOLEAN
      [] ty.k = "vec" -> SeqsUpTo(IntVals(ty.w), MaxVecLen)
      [] ty.k = "arr" -> [1..ty.n -> IntVals(ty.w)]
      [] ty.k = "doc" -> Tuples(ty.f, 1)
      [] ty.k = "set" -> SUBSET (IntVals(ty.w) \cup {7})
      [] ty.k = "map" -> MapsOver(IntVals(ty.w), ValuesOf(ty.t))
      [] ty.k = "null" -> {0}

\* The field lists of the class as it was when the object was saved.
OldSchemas == {<<t>> : t \in FieldTypes} \cup {<<t, u>> : t \in FieldTypes, u \in FieldTypes}

\* The field list f with the i-th field replaced by ctx.null().
Nulled(f, i) == [f EXCEPT ![i] = NullT]

\* The field lists of the class when the object is loaded.
NewSchemas(f) ==
    {f} \cup {f \o <<t>> : t \in FieldTypes} \cup {Nulled(f, i) : i \in 1..Len(f)}

Defaults(f) == [i \in 1..Len(f) |-> Default(f[i])]

\* sstl::save(serialize) with the old serialize.
SstlSave ==
    /\ pc = "sstl"
    /\ rd.stage = "made"
    /\ rd' = [rd EXCEPT !.stage = "saved", !.enc = save(rd.old, rd.x)]
    /\ UNCHANGED <<diskVars, mapVars, pc, ret, writerVars, new_pos, envVars, wrote,
                   ghostVars>>

\* What load leaves in the objects: what the traverse computed, or, when it
\* used bytes it does not own or values never written, anything.
SstlLoaded(r) ==
    \E v \in {r.val, Defaults(rd.new)} :
        /\ r.st.ub \/ v = r.val
        /\ rd' = [rd EXCEPT !.stage = "loaded", !.dec = v, !.ub = r.st.ub]

\* sstl::load(buffer, serialize) with the new serialize.
SstlLoad ==
    /\ pc = "sstl"
    /\ rd.stage = "saved"
    /\ SstlLoaded(load(rd.enc, rd.new))
    /\ UNCHANGED <<diskVars, mapVars, pc, ret, writerVars, new_pos, envVars, wrote,
                   ghostVars>>

InitSstl ==
    /\ file = <<>>
    /\ unsynced = {}
    /\ m_count = 0
    /\ m_map = EmptyUmap
    /\ m_free = EmptyMap
    /\ m_error = {}
    /\ m_lastf = UINT32_MAX
    /\ m_order = 0
    /\ m_flush = 0
    /\ m_hash = {}
    /\ pc = "sstl"
    /\ ret = "idle"
    /\ w_modify = FALSE
    /\ w_flush = FALSE
    /\ new_pos = 0
    /\ \E f \in OldSchemas : \E x \in Tuples(f, 1), g \in NewSchemas(f) :
          rd = [stage |-> "made", old |-> f, new |-> g, x |-> x, enc |-> <<>>,
                dec |-> <<>>, ub |-> FALSE]
    /\ wrote = EmptyMap
    /\ committed = NoVals
    /\ inflight = NoVals
    /\ how = "new"
    /\ flushed = FALSE
    /\ crashes = 0
    /\ freed = NoFreed
    /\ damage = NoDamage
    /\ visited = {}
    /\ sched = NoSched
    /\ io = {}
    /\ conf = [keys |-> {}, vals |-> {}, blocks |-> 0, orders |-> 0, crashes |-> 0]

NextSstl ==
    \/ SstlSave
    \/ SstlLoad

SpecSstl == InitSstl /\ [][NextSstl]_vars

(***************************************************************************)
(* A client whose class holds a nested object of two fields and a number.  *)
(* Between save and load the type of one field of the nested class was     *)
(* changed, so that the reader can meet a tag or a size it does not        *)
(* expect for that field (rd.at).                                          *)
(***************************************************************************)
\* The types of the fields of the nested class.
RetypePool == {IntT(1), IntT(2), BoolT, VecT(1)}

\* The field list f of the nested class with the i-th field of type t.
Retyped(f, i, t) == <<DocT([f[1].f EXCEPT ![i] = t]), f[2]>>

InitRetype ==
    /\ file = <<>>
    /\ unsynced = {}
    /\ m_count = 0
    /\ m_map = EmptyUmap
    /\ m_free = EmptyMap
    /\ m_error = {}
    /\ m_lastf = UINT32_MAX
    /\ m_order = 0
    /\ m_flush = 0
    /\ m_hash = {}
    /\ pc = "sstl"
    /\ ret = "idle"
    /\ w_modify = FALSE
    /\ w_flush = FALSE
    /\ new_pos = 0
    /\ \E t1 \in RetypePool, t2 \in RetypePool, i \in 1..2, t \in RetypePool :
          /\ t # <<t1, t2>>[i]
          /\ \E x \in Tuples(<<DocT(<<t1, t2>>), IntT(1)>>, 1) :
                rd = [stage |-> "made", old |-> <<DocT(<<t1, t2>>), IntT(1)>>,
                      new |-> Retyped(<<DocT(<<t1, t2>>), IntT(1)>>, i, t), x |-> x,
                      enc |-> <<>>, dec |-> <<>>, ub |-> FALSE, at |-> i]
    /\ wrote = EmptyMap
    /\ committed = NoVals
    /\ inflight = NoVals
    /\ how = "new"
    /\ flushed = FALSE
    /\ crashes = 0
    /\ freed = NoFreed
    /\ damage = NoDamage
    /\ visited = {}
    /\ sched = NoSched
    /\ io = {}
    /\ conf = [keys |-> {}, vals |-> {}, blocks |-> 0, orders |-> 0, crashes |-> 0]

SpecRetype == InitRetype /\ [][NextSstl]_vars

\* The map of a client that stores one-block and two-block values and may
\* die once.
InitLong ==
    /\ InitCommon
    /\ conf = [keys |-> {"a", "b"}, vals |-> {1} \cup MidVals, blocks |-> MaxBlocksLong,
               orders |-> MaxOrderLong, crashes |-> MaxCrashes]

SpecLong == InitLong /\ [][Next]_vars

(***************************************************************************)
(* The map on a device whose writes may fail: write_block returns false    *)
(* for the blocks in io.  Records of one and of two blocks, no crash.      *)
(***************************************************************************)
\* Writes of block b start to fail.
Fault(b) ==
    /\ pc # "down"
    /\ Cardinality(io) < MaxFaults
    /\ b \notin io
    /\ io' = io \cup {b}
    /\ UNCHANGED <<diskVars, mapVars, pc, ret, writerVars, new_pos, conf, sched,
                   ebsVars, ghostVars>>

\* The device writes every block again.
Heal ==
    /\ io # {}
    /\ io' = {}
    /\ UNCHANGED <<diskVars, mapVars, pc, ret, writerVars, new_pos, conf, sched,
                   ebsVars, ghostVars>>

InitIO ==
    /\ InitCommon
    /\ conf = [keys |-> {"a", "b"}, vals |-> {1} \cup MidVals, blocks |-> MaxBlocksIO,
               orders |-> MaxOrderIO, crashes |-> 0]

NextIO ==
    \/ Open
    \/ \E fl \in BOOLEAN : BeginCall(fl)
    \/ \E k \in conf.keys, v \in conf.vals : WriterIndex(k, v)
    \/ \E k \in conf.keys, v \in conf.vals : WriterAdd(k, v)
    \/ EndCallback
    \/ \E k \in Keys : PersistEntry(k)
    \/ DropDone
    \/ Flush
    \/ ViewFlush1
    \/ WriteTerminator
    \/ ViewFlush2
    \/ FinalizeCommit
    \/ \E b \in 0..(conf.blocks - 1) : Fault(b)
    \/ Heal

SpecIO == InitIO /\ [][NextIO]_vars

(***************************************************************************)
(* sfs::view with its scratch buffer m_buf (kept in rd.buf), trunc, and a  *)
(* device that fails: writes of the blocks in io, ftruncate when the call  *)
(* is made with ftr false, and reads of damaged blocks.                    *)
(***************************************************************************)
\* What EVP_DecryptUpdate can leave in buf from a block whose tag then fails.
Junk == {[i \in 1..BlockBytes |-> b] : b \in 0..1}

\* The bytes in buf after read_block(block, buf), buf holding b before and g
\* being what a damaged block decrypts to: line 212 returns before buf is
\* touched, line 247 writes the decrypted bytes before line 249 checks the tag.
read_into(f, cnt, block, b, g) ==
    IF block >= cnt THEN b
    ELSE IF block >= Len(f) THEN g
    ELSE IF f[block + 1].aad # block_aad(0, block)
         THEN IF f[block + 1] = Garbage THEN g ELSE f[block + 1].pl
         ELSE f[block + 1].pl

RECURSIVE read_scratch(_, _, _, _, _, _, _)
\* m_buf after view::read(offset, buf, sz), result bytes being copied and
\* m_buf holding b (lines 447-471).
read_scratch(f, cnt, offset, sz, result, b, g) ==
    IF result >= sz THEN b
    ELSE IF StreamChunk(offset, sz, result) = BlockBytes
         THEN IF read_block(f, cnt, offset \div BlockBytes, 0).ok
              THEN read_scratch(f, cnt, offset + BlockBytes, sz, result + BlockBytes, b, g)
              ELSE b
         ELSE IF read_block(f, cnt, offset \div BlockBytes, 0).ok
              THEN read_scratch(f, cnt, offset + StreamChunk(offset, sz, result), sz,
                                result + StreamChunk(offset, sz, result), Zeros, g)
              ELSE read_into(f, cnt, offset \div BlockBytes, b, g)

RECURSIVE write_scratch(_, _, _, _, _, _, _, _)
\* Lines 523-530 for a part of a block: m_buf holds p when write_block is called.
part_scratch(w, p, fsize, offset, data, result, n, g) ==
    IF ~w.ok THEN p
    ELSE write_scratch(w.file, w.count, fsize, offset + n, data, result + n, Zeros, g)

\* Lines 523-535 for a whole block, which is written from buf.
whole_scratch(w, b, fsize, offset, data, result, g) ==
    IF ~w.ok THEN b
    ELSE write_scratch(w.file, w.count, fsize, offset + BlockBytes, data,
                       result + BlockBytes, b, g)

\* m_buf after the loop of view::write (lines 498-537).
write_scratch(f, cnt, fsize, offset, data, result, b, g) ==
    IF result >= Len(data) THEN b
    ELSE IF StreamChunk(offset, Len(data), result) = BlockBytes
         THEN whole_scratch(write_block(f, cnt, offset \div BlockBytes,
                                        SubSeq(data, result + 1, result + BlockBytes), 0),
                            b, fsize, offset, data, result, g)
         ELSE IF offset >= fsize
              THEN part_scratch(write_block(f, cnt, offset \div BlockBytes,
                                    Patched(Zeros, offset % BlockBytes, data, result,
                                            StreamChunk(offset, Len(data), result)), 0),
                                Patched(Zeros, offset % BlockBytes, data, result,
                                        StreamChunk(offset, Len(data), result)),
                                fsize, offset, data, result,
                                StreamChunk(offset, Len(data), result), g)
              ELSE IF ~read_block(f, cnt, offset \div BlockBytes, 0).ok
                   THEN read_into(f, cnt, offset \div BlockBytes, b, g)
                   ELSE part_scratch(write_block(f, cnt, offset \div BlockBytes,
                                         Patched(read_block(f, cnt, offset \div BlockBytes, 0).buf,
                                                 offset % BlockBytes, data, result,
                                                 StreamChunk(offset, Len(data), result)), 0),
                                     Patched(read_block(f, cnt, offset \div BlockBytes, 0).buf,
                                             offset % BlockBytes, data, result,
                                             StreamChunk(offset, Len(data), result)),
                                     fsize, offset, data, result,
                                     StreamChunk(offset, Len(data), result), g)

\* m_buf after view::write(offset, buf, size): lines 476-494 return before the
\* loop or enter it with the file trunc has left.
view_scratch(f, cnt, fneed, offset, data, b, g) ==
    IF size(cnt) < fneed
    THEN IF fneed - size(cnt) > GapLimit \/ trunc(f, cnt, fneed).ret # fneed THEN b
         ELSE write_scratch(trunc(f, cnt, fneed).file, trunc(f, cnt, fneed).count, fneed,
                            offset, data, 0, b, g)
    ELSE write_scratch(f, cnt, size(cnt), offset, data, 0, b, g)

\* The client's call write(offset, data, Len(data)).
ViewWrite(offset, data, g) ==
    /\ pc = "stream"
    /\ rd.n < MaxViewOps
    /\ file' = view_write(file, m_count, offset, data).file
    /\ m_count' = view_write(file, m_count, offset, data).count
    /\ rd' = [op |-> "write", offset |-> offset, data |-> data,
              ret |-> view_write(file, m_count, offset, data).ret, n |-> rd.n + 1,
              buf |-> view_scratch(file, m_count, offset - (offset % BlockBytes),
                                   offset, data, rd.buf, g)]
    /\ UNCHANGED <<unsynced, mapVars, pc, ret, writerVars, new_pos, envVars, wrote,
                   ghostVars>>

\* The client's call read(offset, buf, sz).
ViewRead(offset, sz, g) ==
    /\ pc = "stream"
    /\ rd.n < MaxViewOps
    /\ rd' = [op |-> "read", offset |-> offset,
              data |-> view_read(file, m_count, offset, sz),
              ret |-> Len(view_read(file, m_count, offset, sz)), n |-> rd.n + 1,
              buf |-> read_scratch(file, m_count, offset, sz, 0, rd.buf, g)]
    /\ UNCHANGED <<diskVars, mapVars, pc, ret, writerVars, new_pos, envVars, wrote,
                   ghostVars>>

\* trunc(new_size) with ftr telling whether ftruncate, if called, succeeds
\* (line 412).
Truncated(f, cnt, new_size, ftr) ==
    IF new_size <= TruncLimit /\ NewBlocks(new_size) < cnt /\ ~ftr
    THEN [ret |-> size(cnt), file |-> f, count |-> cnt]
    ELSE trunc(f, cnt, new_size)

\* The client's call trunc(new_size).
ViewTrunc(new_size, ftr) ==
    /\ pc = "stream"
    /\ rd.n < MaxViewOps
    /\ file' = Truncated(file, m_count, new_size, ftr).file
    /\ m_count' = Truncated(file, m_count, new_size, ftr).count
    /\ rd' = [op |-> IF ftr THEN "trunc" ELSE "trunc!", offset |-> new_size, data |-> <<>>,
              ret |-> Truncated(file, m_count, new_size, ftr).ret, n |-> rd.n + 1,
              buf |-> rd.buf]
    /\ UNCHANGED <<unsynced, mapVars, pc, ret, writerVars, new_pos, envVars, wrote,
                   ghostVars>>

\* Block b of the file is overwritten with garbage by somebody else.
ViewDamage(b) ==
    /\ pc = "stream"
    /\ rd.n < MaxViewOps
    /\ b < Len(file)
    /\ file[b + 1] # Garbage
    /\ file' = [file EXCEPT ![b + 1] = Garbage]
    /\ rd' = [rd EXCEPT !.op = "damage", !.offset = b, !.data = <<>>, !.ret = 0]
    /\ UNCHANGED <<unsynced, m_count, mapVars, pc, ret, writerVars, new_pos, envVars,
                   wrote, ghostVars>>

\* The sizes trunc is called with.
TruncSizes == 0..MaxTrunc \cup {TruncLimit + 1}

InitView ==
    /\ file = <<>>
    /\ unsynced = {}
    /\ m_count = 0
    /\ m_map = EmptyUmap
    /\ m_free = EmptyMap
    /\ m_error = {}
    /\ m_lastf = UINT32_MAX
    /\ m_order = 0
    /\ m_flush = 0
    /\ m_hash = {}
    /\ pc = "stream"
    /\ ret = "idle"
    /\ w_modify = FALSE
    /\ w_flush = FALSE
    /\ new_pos = 0
    /\ rd = [op |-> "none", offset |-> 0, data |-> <<>>, ret |-> 0, n |-> 0, buf |-> Zeros]
    /\ wrote = EmptyMap
    /\ committed = NoVals
    /\ inflight = NoVals
    /\ how = "new"
    /\ flushed = FALSE
    /\ crashes = 0
    /\ freed = NoFreed
    /\ damage = NoDamage
    /\ visited = {}
    /\ sched = NoSched
    /\ io = {}
    /\ conf = [keys |-> {}, vals |-> {}, blocks |-> 0, orders |-> 0, crashes |-> 0]

NextView ==
    \/ \E offset \in 0..MaxViewOffset, data \in StreamData, g \in Junk :
           ViewWrite(offset, data, g)
    \/ \E offset \in 0..MaxViewOffset, sz \in 0..MaxStreamLen, g \in Junk :
           ViewRead(offset, sz, g)
    \/ \E new_size \in TruncSizes, ftr \in BOOLEAN : ViewTrunc(new_size, ftr)
    \/ \E b \in 0..NewBlocks(MaxTrunc) : ViewDamage(b)
    \/ \E b \in 0..NewBlocks(MaxTrunc) : Fault(b)
    \/ Heal

SpecView == InitView /\ [][NextView]_vars

(***************************************************************************)
(* ssdb::free_space alone: a client calls add_free and get_free with any   *)
(* arguments on the index it has built so far.  rd is the last call and    *)
(* what it returned (ok = FALSE: std::bad_alloc was thrown).               *)
(***************************************************************************)
FreeStarts == 0..MaxFreeStart \cup {UINT32_MAX}
FreeCounts == 0..MaxFreeCount \cup {UINT32_MAX}

FreeTaken(count, g) ==
    /\ m_free' = g.free
    /\ rd' = [op |-> "get", block |-> 0, count |-> count, pos |-> g.pos, ok |-> g.ok]

\* The client calls get_free(count).
GetFree(count) ==
    /\ pc = "free"
    /\ FreeTaken(count, get_free(m_free, count))
    /\ UNCHANGED <<diskVars, m_map, m_error, m_lastf, m_order, m_flush, m_hash, pc, ret,
                   writerVars, new_pos, envVars, wrote, ghostVars>>

\* The client calls add_free(block, count).
AddFree(block, count) ==
    /\ pc = "free"
    /\ m_free' = add_free(m_free, block, count)
    /\ rd' = [op |-> "add", block |-> block, count |-> count, pos |-> 0, ok |-> TRUE]
    /\ UNCHANGED <<diskVars, m_map, m_error, m_lastf, m_order, m_flush, m_hash, pc, ret,
                   writerVars, new_pos, envVars, wrote, ghostVars>>

\* A free_space as constructed.
InitFree ==
    /\ file = <<>>
    /\ unsynced = {}
    /\ m_count = 0
    /\ m_map = EmptyUmap
    /\ m_free = EmptyMap
    /\ m_error = {}
    /\ m_lastf = UINT32_MAX
    /\ m_order = 0
    /\ m_flush = 0
    /\ m_hash = {}
    /\ pc = "free"
    /\ ret = "idle"
    /\ w_modify = FALSE
    /\ w_flush = FALSE
    /\ new_pos = 0
    /\ rd = [op |-> "none", block |-> 0, count |-> 0, pos |-> 0, ok |-> TRUE]
    /\ wrote = EmptyMap
    /\ committed = NoVals
    /\ inflight = NoVals
    /\ how = "new"
    /\ flushed = FALSE
    /\ crashes = 0
    /\ freed = NoFreed
    /\ damage = NoDamage
    /\ visited = {}
    /\ sched = NoSched
    /\ io = {}
    /\ conf = [keys |-> {}, vals |-> {}, blocks |-> 0, orders |-> 0, crashes |-> 0]

NextFree ==
    \/ \E count \in FreeCounts : GetFree(count)
    \/ \E block \in FreeStarts, count \in FreeCounts : AddFree(block, count)

SpecFree == InitFree /\ [][NextFree]_vars

(***************************************************************************)
(* lfs::list<T>: threads push elements and withdraw the list with pop_all  *)
(* and apply.  The state is in rd: m_head, a list_item* (0 is nullptr);    *)
(* cells, the memory list_items are allocated in, cell c holding m_link    *)
(* and m_data (0 while the cell is free); th, what each thread is doing    *)
(* with its locals old, item and head; n, the elements created; pushed,    *)
(* the elements in the order their push took effect; taken, what every     *)
(* withdrawal gave: the elements of a pop_all chain from its head on, or   *)
(* the arguments of the calls of func of an apply, with the count it       *)
(* returned.  An element is a number from 1 on.                            *)
(***************************************************************************)
Cells == 1..ListCells
Callers == 1..ListThreads

FreeCell == [link |-> 0, data |-> 0]
IdleThread == [pc |-> "idle", old |-> 0, item |-> 0, head |-> 0]

RECURSIVE Chain(_, _)
\* The elements of the items from p on, following m_link.
Chain(cells, p) == IF p = 0 THEN <<>> ELSE <<cells[p].data>> \o Chain(cells, cells[p].link)

RECURSIVE ChainCells(_, _)
\* The items from p on.
ChainCells(cells, p) == IF p = 0 THEN {} ELSE {p} \cup ChainCells(cells, cells[p].link)

\* ~list_item of the item p: the items linked from it are deleted with it.
Deleted(cells, p) == [c \in Cells |-> IF c \in ChainCells(cells, p) THEN FreeCell ELSE cells[c]]

\* The sequence s backwards: what the loop of lines 245-256 makes of the chain.
Reversed(s) == [i \in 1..Len(s) |-> s[Len(s) + 1 - i]]

\* push, lines 222-223: m_head is loaded and the item is made in a free cell c.
PushLoad(t, c) ==
    /\ pc = "list"
    /\ rd.th[t].pc = "idle"
    /\ rd.n < MaxPush
    /\ rd.cells[c] = FreeCell
    /\ rd' = [rd EXCEPT !.n = @ + 1,
                        !.cells[c] = [link |-> rd.m_head, data |-> rd.n + 1],
                        !.th[t] = [pc |-> "cas", old |-> rd.m_head, item |-> c, head |-> 0]]
    /\ UNCHANGED <<diskVars, mapVars, pc, ret, writerVars, new_pos, envVars, wrote,
                   ghostVars>>

\* push whose loop does not link the item to the head it has just seen.
PushCas_Stale(t) ==
    /\ pc = "list"
    /\ rd.th[t].pc = "cas"
    /\ rd' = IF rd.m_head = rd.th[t].old
             THEN [rd EXCEPT !.m_head = rd.th[t].item,
                             !.pushed = Append(@, rd.cells[rd.th[t].item].data),
                             !.th[t] = IdleThread]
             ELSE [rd EXCEPT !.th[t].old = rd.m_head]
    /\ UNCHANGED <<diskVars, mapVars, pc, ret, writerVars, new_pos, envVars, wrote,
                   ghostVars>>

\* push, lines 224-227: one compare_exchange_strong, and the body of the loop
\* when it fails.
PushCas(t) ==
    /\ pc = "list"
    /\ rd.th[t].pc = "cas"
    /\ rd' = IF rd.m_head = rd.th[t].old
             THEN [rd EXCEPT !.m_head = rd.th[t].item,
                             !.pushed = Append(@, rd.cells[rd.th[t].item].data),
                             !.th[t] = IdleThread]
             ELSE [rd EXCEPT !.th[t].old = rd.m_head,
                             !.cells[rd.th[t].item].link = rd.m_head]
    /\ UNCHANGED <<diskVars, mapVars, pc, ret, writerVars, new_pos, envVars, wrote,
                   ghostVars>>

\* pop_all, line 233: the exchange; the caller holds the chain.
PopAll(t) ==
    /\ pc = "list"
    /\ rd.th[t].pc = "idle"
    /\ Len(rd.taken) < MaxTakes
    /\ rd' = [rd EXCEPT !.m_head = 0,
                        !.taken = Append(@, [by |-> "pop_all", thread |-> t,
                                             elems |-> Chain(rd.cells, rd.m_head),
                                             count |-> 0]),
                        !.th[t] = [pc |-> "hold", old |-> 0, item |-> 0, head |-> rd.m_head]]
    /\ UNCHANGED <<diskVars, mapVars, pc, ret, writerVars, new_pos, envVars, wrote,
                   ghostVars>>

\* The unique_ptr pop_all returned goes out of scope.
Release(t) ==
    /\ pc = "list"
    /\ rd.th[t].pc = "hold"
    /\ rd' = [rd EXCEPT !.cells = Deleted(rd.cells, rd.th[t].head),
                        !.th[t] = IdleThread]
    /\ UNCHANGED <<diskVars, mapVars, pc, ret, writerVars, new_pos, envVars, wrote,
                   ghostVars>>

\* apply, line 242: m_head.load(); on nullptr apply returns 0.
ApplyLoad(t) ==
    /\ pc = "list"
    /\ rd.th[t].pc = "idle"
    /\ Len(rd.taken) < MaxTakes
    /\ rd' = IF rd.m_head = 0
             THEN [rd EXCEPT !.taken = Append(@, [by |-> "apply", thread |-> t,
                                                  elems |-> <<>>, count |-> 0])]
             ELSE [rd EXCEPT !.th[t].pc = "xchg"]
    /\ UNCHANGED <<diskVars, mapVars, pc, ret, writerVars, new_pos, envVars, wrote,
                   ghostVars>>

\* apply, line 242: m_head.exchange(nullptr); on nullptr apply returns 0.
ApplyXchg(t) ==
    /\ pc = "list"
    /\ rd.th[t].pc = "xchg"
    /\ rd' = IF rd.m_head = 0
             THEN [rd EXCEPT !.taken = Append(@, [by |-> "apply", thread |-> t,
                                                  elems |-> <<>>, count |-> 0]),
                             !.th[t] = IdleThread]
             ELSE [rd EXCEPT !.m_head = 0,
                             !.th[t] = [pc |-> "run", old |-> 0, item |-> 0,
                                        head |-> rd.m_head]]
    /\ UNCHANGED <<diskVars, mapVars, pc, ret, writerVars, new_pos, envVars, wrote,
                   ghostVars>>

\* apply that calls func along the chain as it was withdrawn.
ApplyRun_Lifo(t) ==
    /\ pc = "list"
    /\ rd.th[t].pc = "run"
    /\ rd' = [rd EXCEPT !.cells = Deleted(rd.cells, rd.th[t].head),
                        !.taken = Append(@, [by |-> "apply", thread |-> t,
                                             elems |-> Chain(rd.cells, rd.th[t].head),
                                             count |-> Len(Chain(rd.cells, rd.th[t].head))]),
                        !.th[t] = IdleThread]
    /\ UNCHANGED <<diskVars, mapVars, pc, ret, writerVars, new_pos, envVars, wrote,
                   ghostVars>>

\* apply, lines 244-264: the chain is reversed, func is called on each element
\* and the item deleted, and the number of calls is returned.
ApplyRun(t) ==
    /\ pc = "list"
    /\ rd.th[t].pc = "run"
    /\ rd' = [rd EXCEPT !.cells = Deleted(rd.cells, rd.th[t].head),
                        !.taken = Append(@, [by |-> "apply", thread |-> t,
                                             elems |-> Reversed(Chain(rd.cells, rd.th[t].head)),
                                             count |-> Len(Chain(rd.cells, rd.th[t].head))]),
                        !.th[t] = IdleThread]
    /\ UNCHANGED <<diskVars, mapVars, pc, ret, writerVars, new_pos, envVars, wrote,
                   ghostVars>>

InitList ==
    /\ file = <<>>
    /\ unsynced = {}
    /\ m_count = 0
    /\ m_map = EmptyUmap
    /\ m_free = EmptyMap
    /\ m_error = {}
    /\ m_lastf = UINT32_MAX
    /\ m_order = 0
    /\ m_flush = 0
    /\ m_hash = {}
    /\ pc = "list"
    /\ ret = "idle"
    /\ w_modify = FALSE
    /\ w_flush = FALSE
    /\ new_pos = 0
    /\ rd = [m_head |-> 0, cells |-> [c \in Cells |-> FreeCell],
             th |-> [t \in Callers |-> IdleThread], n |-> 0, pushed |-> <<>>,
             taken |-> <<>>]
    /\ wrote = EmptyMap
    /\ committed = NoVals
    /\ inflight = NoVals
    /\ how = "new"
    /\ flushed = FALSE
    /\ crashes = 0
    /\ freed = NoFreed
    /\ damage = NoDamage
    /\ visited = {}
    /\ sched = NoSched
    /\ io = {}
    /\ conf = [keys |-> {}, vals |-> {}, blocks |-> 0, orders |-> 0, crashes |-> 0]

NextList ==
    \/ \E t \in Callers, c \in Cells : PushLoad(t, c)
    \/ \E t \in Callers : PushCas(t)
    \/ \E t \in Callers : PopAll(t)
    \/ \E t \in Callers : Release(t)
    \/ \E t \in Callers : ApplyLoad(t)
    \/ \E t \in Callers : ApplyXchg(t)
    \/ \E t \in Callers : ApplyRun(t)

SpecList == InitList /\ [][NextList]_vars

(***************************************************************************)
(* Properties.                                                             *)
(***************************************************************************)
\* The blocks of the run of n blocks at b.
Run(b, n) == {U32(b + i) : i \in 0..(n - 1)}

\* The blocks of the file that hold a terminator.
Terminators ==
    {b \in 0..(Len(file) - 1) :
        /\ read_block(file, m_count, b, 0).ok
        /\ read_block(file, m_count, b, 0).buf.size = 0
        /\ read_block(file, m_count, b, 0).buf.order # 0}

OrderAt(b) == read_block(file, m_count, b, 0).buf.order

\* last_term_block is the terminator of the largest order, and every other
\* terminator is in the free-space index.
OneLiveTerminator ==
    /\ m_lastf \in Terminators
    /\ \A b \in Terminators \ {m_lastf} :
          OrderAt(b) < OrderAt(m_lastf) /\ b \in FreeBlocks(m_free)

\* The tuples of the entries whose order is not 0: what combined is the XOR of
\* the HMACs of, the orders being all different.
HashOf(m) == {<<m[k].order, HeadOf(m[k])>> : k \in {x \in Keys : m[x].in /\ m[x].order # 0}}

\* The hash the terminator at last_term_block holds.
LiveSnapshot == read_block(file, m_count, m_lastf, 0).buf.hash

\* C1: a block written at an index up to count() with payload P under
\* container id c is written successfully, and from then until it is written
\* again read_block under c succeeds and returns exactly P, while read_block
\* under any other container id fails.
C1_RoundTrip ==
    [][\A i \in 0..MaxBlocksEBS, c \in Idents :
          /\ \A pl \in EbsPayloads :
                (EbsWrite(i, pl, c) /\ i <= m_count) =>
                    (i \in DOMAIN wrote' /\ wrote'[i] = [pl |-> pl, ident |-> c])
          /\ (EbsRead(i, c) /\ i \in DOMAIN wrote) =>
                IF c = wrote[i].ident
                THEN rd'.ok /\ rd'.buf = wrote[i].pl
                ELSE ~rd'.ok]_vars

\* A block was written and read back under the container id it was written with.
C1_Witness ==
    /\ rd.done /\ rd.ok
    /\ rd.block \in DOMAIN wrote
    /\ rd.ident = wrote[rd.block].ident
    /\ rd.buf = wrote[rd.block].pl
    /\ wrote[rd.block].ident # 0

\* C2: once the sealed contents of two different blocks, each written at its
\* own index, are exchanged in the file, read_block fails on both of them,
\* under the container ids that sealed them.
C2_SwappedUnreadable ==
    [][\A i, j \in 0..MaxBlocksEBS :
          (EbsSwap(i, j) /\ i \in DOMAIN wrote /\ j \in DOMAIN wrote) =>
              \A c \in {wrote[i].ident, wrote[j].ident} :
                  /\ ~read_block(file', m_count', i, c).ok
                  /\ ~read_block(file', m_count', j, c).ok]_vars

\* A block that holds what was sealed for another index was read under the
\* container id that sealed it, and the read failed.
C2_Witness ==
    /\ rd.done /\ ~rd.ok
    /\ rd.block < Len(file)
    /\ file[rd.block + 1].aad.index # rd.block
    /\ file[rd.block + 1].aad.ident = rd.ident

\* C3: in a store of one-block records that has not crashed before, the
\* reopening after the death of the process yields the map as it was when the
\* last terminator was written, whatever write(f) or finalize persisted after
\* it, and does not set error bit 32.
C3_CrashRollsBack ==
    [][(Open /\ how = "crash" /\ crashes = 1) =>
           (MapVals(m_map') = committed /\ 32 \notin m_error')]_vars

\* The store was reopened after its first crash: records newer than the live
\* terminator were on the file and were left out (bit 4), and the map is the
\* one of the last flush, which was not empty.
C3_Witness ==
    /\ pc = "idle" /\ crashes = 1 /\ ~flushed /\ m_order = m_flush
    /\ 4 \in m_error /\ 32 \notin m_error
    /\ m_lastf # UINT32_MAX
    /\ committed # NoVals
    /\ MapVals(m_map) = committed

\* C4: every reopening, after any number of crashes and closes, yields the
\* map as it was at the last completed flush and does not set error bit 32.
C4_EveryReopening ==
    [][Open => (MapVals(m_map') = committed /\ 32 \notin m_error')]_vars

\* C5: the reopened map holds the values of the last committed generation
\* with either all of the changes that were in flight when the process went
\* down or none of them.
C5_AllOrNothing ==
    [][Open => (MapVals(m_map') \in {committed, inflight})]_vars

\* C6: in a store of one-block records that never crashed, reopening after a
\* flush and a close yields the map of that flush with error = 0, and exactly
\* one live terminator: last_term_block is the terminator of the largest
\* order and every other terminator is free.
C6_CleanReopen ==
    [][(Open /\ crashes = 0 /\ how = "close" /\ flushed) =>
           (MapVals(m_map') = committed /\ m_error' = {} /\ OneLiveTerminator')]_vars

\* C7: whenever no writer callback runs, combined is the XOR of the HMACs of
\* (order, head block) over exactly the entries whose order is not 0; and when
\* finalize has returned with nothing left to flush, the live terminator holds
\* combined.
C7_CombinedHash ==
    [][/\ pc' # "cb" => m_hash' = HashOf(m_map')
       /\ (pc' \in {"idle", "dtor"} /\ m_order' <= m_flush' /\ m_lastf' # UINT32_MAX) =>
              (m_lastf' \in Terminators' /\ LiveSnapshot' = m_hash')]_vars

\* A flush has just committed two entries written at different orders.
C7_Witness ==
    /\ pc = "idle" /\ m_order = m_flush /\ flushed
    /\ m_lastf \in Terminators
    /\ Cardinality(m_hash) = 2
    /\ LiveSnapshot = m_hash

\* C8: after init there is a terminator: last_term_block is not 2^32 - 1 and
\* is a block that holds one.
C8_TerminatorAfterInit ==
    pc = "idle" => (m_lastf # UINT32_MAX /\ m_lastf \in Terminators)

\* C9: while a one-block run waits to supersede a committed three-block run,
\* the three blocks are not free; when finalize commits they are; and the
\* three-block run allocated next starts where one of those runs started.
C9_ReusedInPlace ==
    [][/\ \A k \in Shrunk(m_map') :
             Run(m_map'[k].load_block, 3) \cap FreeBlocks(m_free') = {}
       /\ FinalizeCommit =>
             \A k \in Shrunk(m_map) : Run(m_map[k].load_block, 3) \subseteq FreeBlocks(m_free')
       /\ freed'.ins # -1 => freed'.ins \in freed'.runs]_vars

\* C9 as the program has it: while a one-block run waits to supersede a
\* committed three-block run, the three blocks are not free; when finalize
\* commits they are; and the three-block run allocated next does not extend
\* the file: it lies inside it, on blocks that were free.
C9_ReusedInsideFile ==
    [][/\ \A k \in Shrunk(m_map') :
             Run(m_map'[k].load_block, 3) \cap FreeBlocks(m_free') = {}
       /\ FinalizeCommit =>
             \A k \in Shrunk(m_map) : Run(m_map[k].load_block, 3) \subseteq FreeBlocks(m_free')
       /\ (freed.ins = -1 /\ freed'.ins # -1) =>
             /\ freed'.ins + 3 <= m_count
             /\ m_count' = m_count
             /\ \A k \in Keys :
                   PersistEntry(k) =>
                       Run(freed'.ins, 3) \subseteq
                           FreeBlocks(m_free) \cup Run(m_map[k].new_block, m_map[k].new_count)
             /\ Run(freed'.ins, 3) \cap FreeBlocks(m_free') = {}]_vars

\* A three-block run was freed by a commit and the next three-block run was
\* put inside the file, though not where the freed run started.
C9_Witness ==
    /\ freed.ins # -1
    /\ freed.ins \notin freed.runs
    /\ freed.ins + 3 <= m_count

\* C10: the intervals of the free-space index are pairwise disjoint and not
\* adjacent: each one ends before the next one starts.
C10_Coalesced ==
    \A a, b \in DOMAIN m_free : a < b => a + m_free[a] < b

\* The first scan of reload (m_flush = -1) over file f.
Pass1(f) == ScanFrom(ScanInit(Len(f), {}), 0, f, Len(f), -1)

\* C11: when one block other than the terminator in force was damaged in a
\* store that had been closed, reopening it ends after at most three scans,
\* and the hash the first scan computes equals the snapshot of that
\* terminator exactly when the damaged block was not the head block of an
\* entry.
C11_SingleCorruption ==
    [][(Open /\ damage.fresh) =>
        /\ reload(file, Len(file), -1, {}).passes <= 3
        /\ (Pass1(file).hash = Pass1(file).last_hash) <=> (damage.block \notin damage.heads)]_vars

\* The byte at position p of the stream, as read(p, buf, 1) gives it.
ByteAt(f, cnt, p) == view_read(f, cnt, p, 1)

\* What C12 says of a write(offset, data, n) that returned n.
StreamWriteHolds(offset, data) ==
    /\ view_read(file', m_count', offset, Len(data)) = data
    /\ \A p \in size(m_count)..(offset - 1) : ByteAt(file', m_count', p) = <<0>>
    /\ \A p \in 0..(size(m_count) - 1) :
          (p < offset \/ p >= offset + Len(data))
              => ByteAt(file', m_count', p) = ByteAt(file, m_count, p)
    /\ m_count' = Max({m_count, NewBlocks(offset + Len(data))})

\* The step is a write(offset, data, n) that returned n.
WroteAll == pc = "stream" /\ rd'.n = rd.n + 1 /\ rd'.op = "write" /\ rd'.ret = Len(rd'.data)

InsideOp(t) == PcOf(t) # "idle"

\* The thread that runs enters its callback.
CallbackBegins == sched'.cur = sched.cur /\ pc = "idle" /\ pc' \in {"cb", "rcb"}

C14_RoundTrip == (pc = "sstl" /\ rd.stage = "loaded" /\ rd.new = rd.old) => rd.dec = rd.x

\* The new field list is the old one with one field appended.
Appended == Len(rd.new) = Len(rd.old) + 1 /\ SubSeq(rd.new, 1, Len(rd.old)) = rd.old

\* C15: a payload of an older schema decoded with a newer one that appends
\* a trailing field gives the old values for the old fields and the default
\* for the appended one; and with a field replaced by a null placeholder,
\* every later field decodes to its original value.
C15_SchemaEvolution ==
    (pc = "sstl" /\ rd.stage = "loaded") =>
        /\ Appended => rd.dec = rd.x \o <<Default(rd.new[Len(rd.new)])>>
        /\ \A i \in 1..Len(rd.old) :
              rd.new = Nulled(rd.old, i) =>
                  \A j \in (i + 1)..Len(rd.old) : rd.dec[j] = rd.x[j]

\* The n blocks from blk on of file f hold the record (k, v): a head and its
\* continuations, all of the head's order.
RunStored(f, blk, n, k, v) ==
    /\ blk + n <= Len(f)
    /\ \A i \in 0..(n - 1) :
          /\ read_block(f, Len(f), blk + i, 0).ok
          /\ f[blk + i + 1].pl = RunBlock(i, f[blk + 1].pl.order, k, v)

\* The keys whose record, in the map at the clean close and committed by the
\* last flush, takes more than one block.
LongCommitted ==
    {k \in Keys : committed[k] = inflight[k] /\ EncSize(k, committed[k]) > DataSize}

\* C16: a record of more than 4032 bytes is written as a head block and
\* ceil(s / 4032) - 1 consecutive continuation blocks, and when the cleanly
\* closed, undamaged store is opened again, its entry is in the map with the
\* original value and load_count = ceil(s / 4032), bits 8 and 16 not set.
C16_MultiBlockRecord ==
    [][/\ \A k \in Keys :
             (PersistEntry(k) /\ EncSize(k, m_map[k].val) > DataSize) =>
                 /\ m_map'[k].new_count = BlockCount(EncSize(k, m_map[k].val))
                 /\ RunStored(file', m_map'[k].new_block, m_map'[k].new_count, k,
                              m_map[k].val)
       /\ (Open /\ how = "close" /\ damage.block = -1) =>
             \A k \in LongCommitted :
                 /\ m_map'[k].in
                 /\ m_map'[k].val = committed[k]
                 /\ m_map'[k].load_count = BlockCount(EncSize(k, committed[k]))
                 /\ m_error' \cap {8, 16} = {}]_vars

\* The blocks of the runs recorded as load_block/load_count in map m.
LoadRuns(m) ==
    UNION {{U32(m[k].load_block + i) : i \in 0..(m[k].load_count - 1)} :
           k \in {x \in Keys : m[x].in}}

\* The blocks of the runs recorded as new_block/new_count in map m.
NewRuns(m) ==
    UNION {{U32(m[k].new_block + i) : i \in 0..(m[k].new_count - 1)} :
           k \in {x \in Keys : m[x].in}}

\* The block of the terminator in force, if there is one.
LastTerm(lastf) == IF lastf = UINT32_MAX THEN {} ELSE {lastf}

\* C17: no block of the last durable generation - a run recorded as
\* load_block/load_count of an entry, or the block m_lastf - is written by
\* the umap; the runs change only when a newer terminator is on disk.
C17_DurableNotOverwritten ==
    [][pc # "down" =>
          Written(file, file') \cap (LoadRuns(m_map) \cup LastTerm(m_lastf)) = {}]_vars

\* A record was written to a new run while the run it was loaded from and
\* the terminator in force are kept.
C17_Witness ==
    /\ pc \in {"drop", "fin", "sync1"}
    /\ m_lastf # UINT32_MAX
    /\ \E k \in Keys :
          /\ m_map[k].in
          /\ m_map[k].order # 0
          /\ m_map[k].load_count # 0
          /\ m_map[k].new_count # 0
          /\ RunStored(file, m_map[k].new_block, m_map[k].new_count, k, m_map[k].val)

\* The blocks [blk, blk + cnt).
RunOf(blk, cnt) == {U32(blk + i) : i \in 0..(cnt - 1)}

\* The blocks entry e holds: its load run and its new run.
Held(e) ==
    IF e.in THEN RunOf(e.load_block, e.load_count) \cup RunOf(e.new_block, e.new_count)
    ELSE {}

\* The free-space intervals a and b of index m share a block.
FreeOverlap(m, a, b) == a < b /\ b < a + m[a] /\ m[b] > 0

\* C18: in every reachable state the load runs and new runs of all entries,
\* the block m_lastf and the free-space intervals are pairwise disjoint.
C18_Disjoint ==
    /\ \A k \in Keys :
          m_map[k].in =>
              RunOf(m_map[k].load_block, m_map[k].load_count)
                  \cap RunOf(m_map[k].new_block, m_map[k].new_count) = {}
    /\ \A k \in Keys : \A l \in Keys \ {k} : Held(m_map[k]) \cap Held(m_map[l]) = {}
    /\ \A k \in Keys : LastTerm(m_lastf) \cap Held(m_map[k]) = {}
    /\ FreeBlocks(m_free) \cap (LoadRuns(m_map) \cup NewRuns(m_map) \cup LastTerm(m_lastf)) = {}
    /\ \A a \in DOMAIN m_free : \A b \in DOMAIN m_free : ~FreeOverlap(m_free, a, b)

\* After a reopening: a terminator in force, an entry with a load run and a
\* new run, and a free block inside the file.
C18_Witness ==
    /\ how = "up"
    /\ m_lastf # UINT32_MAX
    /\ \E k \in Keys :
          m_map[k].in /\ m_map[k].load_count # 0 /\ m_map[k].new_count # 0
    /\ \E b \in FreeBlocks(m_free) : b < m_count

\* The heads of the runs, live at the clean close, of which the damaged
\* block was a continuation.
PartialHeads ==
    {h \in damage.heads :
        h < damage.block /\ damage.block < h + BlockCount(file[h + 1].pl.size)}

\* C19: when recovery meets a head block whose continuation blocks are not
\* all validly there, bit 8 or 16 is set, no entry is made from that head,
\* and every block of the partial run, the head included, is in the
\* free-space index afterwards.
C19_PartialRunFreed ==
    [][(Open /\ damage.fresh) =>
          \A h \in PartialHeads :
              /\ m_error' \cap {8, 16} # {}
              /\ \A k \in Keys : m_map'[k].in => m_map'[k].load_block # h
              /\ RunOf(h, BlockCount(file[h + 1].pl.size)) \subseteq FreeBlocks(m_free')]_vars

\* The value of m_flush in the last scan of a reload of file f: the first and
\* the third scan exclude no order, the second those above the terminator's.
LastScanFlush(f) ==
    IF reload(f, Len(f), -1, {}).passes = 2 THEN Pass1(f).order ELSE -1

\* The valid head blocks of file f that hold a record of key k, its
\* continuations in place, and that m_flush = flush does not exclude.
HeadsOf(f, k, flush) ==
    {b \in 0..(Len(f) - 1) :
        /\ read_block(f, Len(f), b, 0).ok
        /\ f[b + 1].pl.order >= 1
        /\ f[b + 1].pl.size > 0
        /\ f[b + 1].pl.key = k
        /\ RunStored(f, b, BlockCount(f[b + 1].pl.size), k, f[b + 1].pl.val)
        /\ ~OrderAboveFlush(f[b + 1].pl.order, flush)}

\* The largest order among the blocks H of file f.
TopOrder(f, H) == Max({f[b + 1].pl.order : b \in H})

\* Entry e is made from a head of H that has the largest order, and the runs
\* of the other heads of H are in the free-space index fr.
WinnerOf(f, H, e, fr) ==
    /\ e.in
    /\ e.load_block \in H
    /\ e.order = TopOrder(f, H)
    /\ f[e.load_block + 1].pl.order = e.order
    /\ e.val = f[e.load_block + 1].pl.val
    /\ e.load_count = BlockCount(f[e.load_block + 1].pl.size)
    /\ \A b \in H \ {e.load_block} :
          RunOf(b, BlockCount(f[b + 1].pl.size)) \subseteq FreeBlocks(fr)

\* C20: when recovery finds several valid head blocks of one key, the entry
\* is the one of the largest order among those m_flush does not exclude,
\* every other run of the key is in the free-space index, and the combined
\* hash holds the tuples of the winners only.
C20_LargestOrderWins ==
    [][Open =>
          /\ \A k \in Keys :
                Cardinality(HeadsOf(file, k, LastScanFlush(file))) >= 2 =>
                    WinnerOf(file, HeadsOf(file, k, LastScanFlush(file)), m_map'[k],
                             m_free')
          /\ (\E k \in Keys : Cardinality(HeadsOf(file, k, LastScanFlush(file))) >= 2) =>
                m_hash' = {<<m_map'[k].order, m_map'[k].load_block>> :
                              k \in {x \in Keys : m_map'[x].in}}]_vars

\* The second scan of file f: m_flush is the order the first scan ended with.
Pass2(f) == ScanFrom(ScanInit(Len(f), Pass1(f).error), 0, f, Len(f), Pass1(f).order)

\* The hash check at the end of a scan fails.
Mismatch(st) == st.hash # st.last_hash

\* C21: reload ends after at most three scans; the second scan runs only if
\* the hash check of the first fails, the third only if the check of the
\* second fails too; the third ends with m_flush = 0 and bit 32 set, and bit
\* 32 is not set otherwise.
C21_ThreeScans ==
    [][Open =>
          /\ reload(file, Len(file), -1, {}).passes \in 1..3
          /\ reload(file, Len(file), -1, {}).passes >= 2 <=> Mismatch(Pass1(file))
          /\ reload(file, Len(file), -1, {}).passes = 3
                <=> (Mismatch(Pass1(file)) /\ Mismatch(Pass2(file)))
          /\ reload(file, Len(file), -1, {}).passes = 3 => (m_flush' = 0 /\ 32 \in m_error')
          /\ reload(file, Len(file), -1, {}).passes # 3 => 32 \notin m_error']_vars

\* init has just ended its reload in the third scan.
C21_Witness ==
    /\ pc = "fin"
    /\ how = "up"
    /\ m_flush = 0
    /\ 32 \in m_error
    /\ Mismatch(Pass1(file))
    /\ Mismatch(Pass2(file))

\* The step writes a terminator block.
WritesTerminator ==
    \E b \in Written(file, file') : file'[b + 1].pl.size = 0 /\ file'[b + 1].pl.order # 0

\* The step of a live umap hands the terminator in force or a load run to
\* the free space, or moves m_lastf or m_flush.
Commits ==
    \/ m_lastf' # m_lastf
    \/ m_flush' # m_flush
    \/ FreeBlocks(m_free') \cap (LoadRuns(m_map) \cup LastTerm(m_lastf)) # {}

\* C22: finalize writes the blocks of all dirty entries, then flushes the
\* view, then writes the terminator, then flushes the view again, and only
\* then frees the previous terminator and the superseded load runs and sets
\* m_lastf and m_flush.
C22_FinalizeOrder ==
    [][(pc # "down" /\ pc' # "down") =>
          /\ WritesTerminator => (Dirty(m_map) = {} /\ unsynced = {})
          /\ Commits =>
                /\ Dirty(m_map) = {}
                /\ unsynced = {}
                /\ file' = file
                /\ m_lastf' # UINT32_MAX
                /\ read_block(file, Len(file), m_lastf', 0).ok
                /\ file[m_lastf' + 1].pl = TermBlock(m_order, m_hash)
                /\ m_flush' = m_order]_vars

\* finalize has ended: the new terminator is in force, and a block that
\* holds an older record of a key in the map is free.
C22_Witness ==
    /\ pc = "idle"
    /\ flushed
    /\ m_lastf # UINT32_MAX
    /\ m_flush = m_order
    /\ unsynced = {}
    /\ \E k \in Keys : \E b \in FreeBlocks(m_free) :
          /\ m_map[k].in
          /\ m_map[k].load_count # 0
          /\ b < m_count
          /\ file[b + 1].pl.key = k
          /\ file[b + 1].pl.order < m_map[k].order

\* The orders of the valid blocks of file f: those that decrypt and hold an
\* order in 1..INT64_MAX.
StoredOrders(f) ==
    {f[b + 1].pl.order : b \in {x \in 0..(Len(f) - 1) :
        read_block(f, Len(f), x, 0).ok /\ f[x + 1].pl.order >= 1}}

\* C23: when recovery is complete, in whichever scan, m_order is at least
\* the order of every valid block of the file, so that the next order
\* given out, ++m_order, is above all stored orders.
C23_OrderAboveStored ==
    [][Open => \A o \in StoredOrders(file) : m_order' >= o]_vars

\* The keys in map m.
KeysIn(m) == {k \in Keys : m[k].in}

\* C24: after recovery and after every write(f) or flush(f) has returned,
\* every entry of the map has order >= 1 and no two entries have the same
\* order.
C24_OrdersUnique ==
    pc = "idle" =>
        /\ \A k \in KeysIn(m_map) : m_map[k].order >= 1
        /\ \A k \in KeysIn(m_map) : \A l \in KeysIn(m_map) \ {k} :
              m_map[k].order # m_map[l].order

\* After a reopening, write(f) has returned with two entries in the map, one
\* loaded and one written since.
C24_Witness ==
    /\ pc = "idle"
    /\ how = "up"
    /\ crashes > 0
    /\ \E k \in KeysIn(m_map) : \E l \in KeysIn(m_map) :
          /\ m_map[k].load_count # 0 /\ m_map[k].new_count = 0
          /\ m_map[l].new_count # 0

\* Entry e of key k is on the blocks of its new run in file f, with its
\* order.
OnNewRun(f, k, e) ==
    /\ e.order >= 1
    /\ RunStored(f, e.new_block, e.new_count, k, e.val)
    /\ f[e.new_block + 1].pl.order = e.order

Dirtied(k) == k \in Dirty(m_map') /\ k \notin Dirty(m_map)
Dirties(k) ==
    \/ m_map[k].in /\ \E v \in conf.vals : WriterIndex(k, v) \/ WriterAdd(k, v)
    \/ ~m_map[k].in /\ \E v \in conf.vals : WriterAdd(k, v) \/ WriterAddKeep(k, v)
TakenOut(k) ==
    /\ k \in Dirty(m_map')
    /\ m_hash' = IF k \in Dirty(m_map) \/ ~m_map[k].in THEN m_hash
                 ELSE m_hash \ {<<m_map[k].order, HeadOf(m_map[k])>>}
    /\ w_modify'
NoEffect == UNCHANGED <<diskVars, mapVars, writerVars>>
C26_WriterDirty ==
    [][\A k \in conf.keys :
        /\ pc = "cb" /\ pc' = "cb" => (Dirtied(k) => Dirties(k))
        /\ Dirties(k) => TakenOut(k)
        /\ WriterIndexAbsent(k) => rd'.val = 0 /\ NoEffect
        /\ WriterGet(k) \/ ReaderIndex(k) => NoEffect
        /\ m_map[k].in /\ (\E v \in conf.vals : WriterAddKeep(k, v)) => NoEffect]_vars
\* Inside a writer scope a committed entry has been made dirty, and a lookup
\* has returned another entry that is still clean.
C26_Witness ==
    /\ pc = "cb"
    /\ w_modify
    /\ \E k \in conf.keys : k \in Dirty(m_map) /\ m_map[k].load_count # 0
    /\ \E k \in conf.keys : m_map[k].in /\ m_map[k].order # 0 /\ rd.key = k


\* C27: when a block write fails while an entry is persisted, the run that
\* was reserved for it is free again, the combined hash holds no tuple of the
\* entry, its order, new_block and new_count are 0, m_order is what it was,
\* bit 64 is set, and the run the entry was loaded from is still allocated.
EntryRun(k) ==
    RunFor(m_free, m_map[k], BlockCount(EncSize(k, m_map[k].val)))
WriteFails(k) ==
    /\ PersistEntry(k)
    /\ EntryRun(k).ok
    /\ ~WriteRun(file, m_count, EntryRun(k).pos, BlockCount(EncSize(k, m_map[k].val)),
                 0, m_order + 1, k, m_map[k].val).ok
RunReturned(k) ==
    RunOf(EntryRun(k).pos, BlockCount(EncSize(k, m_map[k].val))) \subseteq FreeBlocks(m_free')
EntryReset(k) ==
    /\ m_hash' = m_hash
    /\ \A t \in m_hash' : t[1] # m_order + 1
    /\ m_map'[k].order = 0
    /\ m_map'[k].new_block = 0
    /\ m_map'[k].new_count = 0
    /\ m_order' = m_order
    /\ 64 \in m_error'
LoadRunKept(k) ==
    /\ m_map'[k].load_block = m_map[k].load_block
    /\ m_map'[k].load_count = m_map[k].load_count
    /\ RunOf(m_map[k].load_block, m_map[k].load_count) \cap FreeBlocks(m_free') = {}
C27_WriteFailure ==
    [][\A k \in conf.keys :
        WriteFails(k) => RunReturned(k) /\ EntryReset(k) /\ LoadRunKept(k)]_vars


\* C28: when the write of the terminator fails in finalize, the block that
\* was taken for it is free again, m_order is what it was, bit 128 is set,
\* and m_flush, m_lastf and every entry are unchanged: no run is promoted and
\* no other block is freed.
TerminatorFails ==
    /\ WriteTerminator
    /\ ~write_block(file, m_count, get_free(m_free, 1).pos,
                    TermBlock(m_order + 1, m_hash), 0).ok
C28_TerminatorFailure ==
    [][TerminatorFails =>
        /\ get_free(m_free, 1).pos \in FreeBlocks(m_free')
        /\ m_free # EmptyMap => FreeBlocks(m_free') = FreeBlocks(m_free)
        /\ m_order' = m_order
        /\ 128 \in m_error'
        /\ UNCHANGED <<m_flush, m_lastf, m_map, m_hash, file>>]_vars
\* finalize has returned after a failed terminator write: entries written
\* since the last flush are on new runs that were not promoted.
C28_Witness ==
    /\ 128 \in m_error
    /\ pc = "idle"
    /\ m_order > m_flush
    /\ \E k \in conf.keys : m_map[k].in /\ m_map[k].new_count # 0 /\ m_map[k].load_count # 0


\* C29: get_free(count) returns the start of an interval whose length is the
\* least among the intervals of length >= count, and afterwards exactly the
\* blocks [start, start + count) are no longer free; on the empty index it
\* returns 0 and leaves [count, 2^32) free.
\* The blocks an index stands for: the empty index is the all-free sentinel.
Free(m) == IF m = EmptyMap THEN 0..(NAddr - 1) ELSE FreeBlocks(m)
Smallest(m, pos, count) ==
    /\ pos \in DOMAIN m
    /\ m[pos] >= count
    /\ \A x \in DOMAIN m : m[x] >= count => m[x] >= m[pos]
Taken(m, count, g) ==
    IF m = EmptyMap
    THEN g.pos = 0 /\ Free(g.free) = count..(NAddr - 1)
    ELSE Smallest(m, g.pos, count) /\ Free(g.free) = Free(m) \ RunOf(g.pos, count)
C29_BestFit ==
    \A count \in FreeCounts :
        get_free(m_free, count).ok => Taken(m_free, count, get_free(m_free, count))
\* The index has two intervals that would do for one block, the shorter one
\* behind the longer one, and a run was taken from it since the map was opened.
C29_Witness ==
    /\ \E a, b \in DOMAIN m_free : a < b /\ m_free[b] >= 1 /\ m_free[a] > m_free[b]
    /\ \E k \in conf.keys : m_map[k].in /\ m_map[k].new_count # 0


\* C30: add_free(start, len) makes the blocks [start, min(start + len,
\* 2^32 - 1)) free and leaves free every block that was free: the free blocks
\* afterwards are exactly those before and those of the new interval, however
\* the new interval lies to the ones in the index.
NewInterval(block, count) ==
    {x \in 0..(NAddr - 1) : block <= x /\ x < block + count /\ x < UINT32_MAX}
C30_AddFreeExact ==
    [][\A block \in FreeStarts, count \in FreeCounts :
        AddFree(block, count) =>
            FreeBlocks(m_free') = FreeBlocks(m_free) \cup NewInterval(block, count)]_vars


\* C31: get_free(count) on a non-empty index without an interval of length
\* >= count throws and leaves the index as it was; a removal that takes the
\* whole of the only interval leaves the entry (0, 0); so an index that is not
\* empty never becomes empty again, and a get_free on it that returns takes
\* its blocks from an interval of the index, never from the all-free sentinel.
NoFit(m, count) == m # EmptyMap /\ \A k \in DOMAIN m : m[k] < count
LastTaken(m, count) == \E k \in DOMAIN m : DOMAIN m = {k} /\ m[k] = count
C31_Exhaustion ==
    [][/\ rd'.op = "get" /\ GetFree(rd'.count) =>
                /\ NoFit(m_free, rd'.count) => ~rd'.ok /\ m_free' = m_free
                /\ LastTaken(m_free, rd'.count) =>
                       rd'.ok /\ m_free' = Put(EmptyMap, 0, 0)
                /\ m_free # EmptyMap /\ rd'.ok =>
                       rd'.pos \in DOMAIN m_free /\ m_free[rd'.pos] >= rd'.count
       /\ m_free # EmptyMap /\ pc = "free" => m_free' # EmptyMap]_vars
\* The only interval was taken whole, and the next get_free threw.
C31_Witness ==
    /\ m_free = Put(EmptyMap, 0, 0)
    /\ rd.op = "get"
    /\ ~rd.ok
    /\ rd.count >= 1


\* C32: a recovery that ends in the third scan (bit 32) with a valid block
\* found makes init enter finalize; when that finalize has committed, the
\* block m_lastf holds a terminator whose snapshot is the combined hash of
\* the salvaged entries, and a reload of the file as it is ends after one
\* scan, without bit 32, with the same keys and values and the same m_lastf.
Salvaged == Open /\ 32 \in m_error' /\ m_order' >= 1
SalvageCommit == FinalizeCommit /\ 32 \in m_error /\ m_lastf = UINT32_MAX
Reopens(r) ==
    /\ r.passes = 1
    /\ 32 \notin r.error
    /\ MapVals(r.map) = MapVals(m_map')
    /\ KeysIn(r.map) = KeysIn(m_map')
    /\ r.lastf = m_lastf'
C32_SalvageTerminator ==
    [][/\ Salvaged => pc' = "fin" /\ ret' = "idle"
       /\ SalvageCommit =>
            /\ m_lastf' < Len(file')
            /\ file'[m_lastf' + 1].pl = TermBlock(m_order', HashOf(m_map'))
            /\ Reopens(reload(file', Len(file'), -1, {}))]_vars
\* init has written its terminator after a salvage that found an entry.
C32_Witness ==
    /\ pc = "idle"
    /\ 32 \in m_error
    /\ m_lastf # UINT32_MAX
    /\ m_flush = m_order
    /\ ~flushed
    /\ \E k \in conf.keys : m_map[k].in
    /\ \A k \in Keys : m_map[k].new_count = 0


\* C33: flush(), and every step of a flush(f) whose f dirties nothing, taken
\* when m_order <= m_flush, writes no block and leaves the map, the free
\* index, the combined hash, m_order, m_flush and m_lastf unchanged, and
\* finalize returns at once.
QuietFlush ==
    /\ m_order <= m_flush
    /\ \/ LockedFlush
       \/ LockedCall(TRUE)
       \/ pc \in {"cb", "drop"} /\ w_flush /\ ~w_modify /\ ~w_modify'
C33_QuietFlush ==
    [][QuietFlush =>
        /\ UNCHANGED <<file, m_count, unsynced>>
        /\ UNCHANGED <<m_map, m_free, m_hash, m_order, m_flush, m_lastf, m_error>>
        /\ pc' \in {"idle", "cb", "drop"}]_vars
\* ~writer of a flush(f) whose f looked a key up and dirtied nothing, with
\* every entry flushed before.
C33_Witness ==
    /\ pc = "drop"
    /\ w_flush
    /\ ~w_modify
    /\ m_order = m_flush
    /\ m_order >= 1
    /\ rd.key # NoKey
    /\ \E k \in conf.keys : m_map[k].in


\* C34: read_block(i) with i >= count and write_block(i) with i > count fail
\* and change neither count nor any block of the file; a write_block(count)
\* that succeeds makes count one more, and a write_block(i) with i < count
\* that succeeds leaves count as it is.
C34_CountBounds ==
    [][/\ \A i \in 0..MaxBlocksEBS, c \in Idents :
            EbsRead(i, c) /\ i >= m_count => ~rd'.ok /\ UNCHANGED <<file, m_count>>
       /\ \A i \in 0..MaxBlocksEBS, pl \in EbsPayloads, c \in Idents :
            EbsWrite(i, pl, c) =>
                /\ i > m_count =>
                       /\ ~write_block(file, m_count, i, pl, c).ok
                       /\ UNCHANGED <<file, m_count, wrote>>
                /\ i = m_count /\ write_block(file, m_count, i, pl, c).ok =>
                       m_count' = m_count + 1
                /\ i < m_count /\ write_block(file, m_count, i, pl, c).ok =>
                       m_count' = m_count]_vars
\* Two appends have made the store two blocks long, and a read at or past the
\* end has failed.
C34_Witness ==
    /\ pc = "ebs"
    /\ m_count = 2
    /\ 0 \in DOMAIN wrote /\ 1 \in DOMAIN wrote
    /\ rd.done /\ rd.block >= m_count /\ ~rd.ok


\* A step that is a call of trunc(rd'.offset).
TruncStep == rd'.n = rd.n + 1 /\ rd'.op \in {"trunc", "trunc!"}

\* The blocks below the old count read as before.
OldBlocksKept ==
    \A i \in 0..(Min({m_count, m_count'}) - 1) :
        read_block(file', m_count', i, 0) = read_block(file, m_count, i, 0)

\* The blocks added read as zeros.
AddedZeros ==
    \A i \in m_count..(m_count' - 1) :
        read_block(file', m_count', i, 0) = [ok |-> TRUE, buf |-> Zeros]

\* No block at or past the new count can be read.
TailUnreadable ==
    \A i \in m_count'..(NewBlocks(MaxTrunc) + 1) : ~read_block(file', m_count', i, 0).ok

\* ftruncate or the write of one of the blocks to add fails.
TruncFails ==
    \/ NewBlocks(rd'.offset) < m_count /\ rd'.op = "trunc!"
    \/ io \cap (m_count..(NewBlocks(rd'.offset) - 1)) # {}

\* C35 as stated: trunc(bytes) with bytes within the limit sets count to
\* bytes / BlockBytes rounded up and returns count * BlockBytes, the blocks
\* added reading as zeros, the old ones as before, and those cut off not at
\* all; with bytes over the limit nothing changes and the size is returned.
C35_Trunc ==
    [][TruncStep =>
          IF rd'.offset <= TruncLimit
          THEN /\ m_count' = NewBlocks(rd'.offset)
               /\ rd'.ret = m_count' * BlockBytes
               /\ OldBlocksKept /\ AddedZeros /\ TailUnreadable
          ELSE UNCHANGED <<file, m_count>> /\ rd'.ret = size(m_count)]_vars

\* C35, amended: the count becomes bytes / BlockBytes rounded up unless
\* ftruncate or a block write fails; a failed ftruncate changes nothing and a
\* failed write stops the growth at that block.  In every case the value
\* returned is count * BlockBytes, the blocks added read as zeros, the old
\* ones as before, and no block at or past the count can be read.
C35_TruncUnlessFailed ==
    [][TruncStep =>
          IF rd'.offset <= TruncLimit
          THEN /\ ~TruncFails => m_count' = NewBlocks(rd'.offset)
               /\ TruncFails /\ NewBlocks(rd'.offset) < m_count =>
                      UNCHANGED <<file, m_count>>
               /\ TruncFails /\ NewBlocks(rd'.offset) > m_count =>
                      m_count' = Min(io \cap (m_count..(NewBlocks(rd'.offset) - 1)))
               /\ rd'.ret = m_count' * BlockBytes
               /\ OldBlocksKept /\ AddedZeros /\ TailUnreadable
          ELSE UNCHANGED <<file, m_count>> /\ rd'.ret = size(m_count)]_vars

\* A store grown to several blocks has been cut to one block by trunc.
C35_Witness ==
    /\ pc = "stream"
    /\ rd.op = "trunc" /\ rd.n = 2
    /\ rd.offset <= BlockBytes /\ rd.offset > 0
    /\ m_count = 1 /\ Len(file) = 1
    /\ rd.ret = BlockBytes


\* C36: when a stream read or write has returned, whether it went through or
\* stopped at a block read or write that failed, m_buf holds only zeros.
C36_ScratchZero ==
    pc = "stream" /\ rd.op \in {"read", "write"} /\ "buf" \in DOMAIN rd => rd.buf = Zeros


\* C38: whatever the buffer and the schema, begin is never past end when the
\* reader has decoded a value, so that no byte outside the buffer is read.
C38_CursorInBounds ==
    pc = "sstl" /\ rd.stage = "loaded" =>
        ~Over(load(rd.enc, rd.new).st) /\ ~load(rd.enc, rd.new).st.ub


\* The reader of a field of type ty does not expect the tag the bytes e
\* begin with (the last branch of the traverse, drop()).
UnexpectedTag(ty, e) ==
    CASE ty.k = "int" -> e[1] \notin {bit_false, my_type(ty.w), null_value}
      [] ty.k = "bool" -> e[1] \notin {bit_false, bit_true, null_value}
      [] ty.k \in {"vec", "arr"} ->
            e[1] \notin {bit_false, u8_sized, u32_sized, u64_sized, null_value}
      [] OTHER -> FALSE

\* The tag is the one of a sized number, and the size is not sizeof(T).
UnexpectedSize(ty, e) ==
    /\ ty.k = "int"
    /\ my_type(ty.w) = u8_sized
    /\ e[1] = u8_sized
    /\ e[2] # ty.w

\* The bytes save wrote for the field whose type was changed.
RetypedBytes == Enc(rd.old[1].f[rd.at], rd.x[1][rd.at])

\* The fields before the changed one are decoded, the others have their
\* defaults, and the number after the nested object is decoded.
DroppedOnly ==
    /\ \A j \in 1..2 :
          rd.dec[1][j] = IF j < rd.at THEN rd.x[1][j] ELSE Default(rd.new[1].f[j])
    /\ rd.dec[2] = rd.x[2]

\* C37: a tag or a size the reader does not expect for a field makes it skip
\* the rest of the document the field is in and no more: the fields decoded
\* before keep their values, the others their defaults, and the enclosing
\* document goes on with the value after the terminator of the dropped one.
C37_DropsDocumentOnly ==
    (/\ pc = "sstl" /\ rd.stage = "loaded" /\ "at" \in DOMAIN rd
     /\ \/ UnexpectedTag(rd.new[1].f[rd.at], RetypedBytes)
        \/ UnexpectedSize(rd.new[1].f[rd.at], RetypedBytes))
    => DroppedOnly


RECURSIVE Flat(_, _)
\* The elements of the withdrawals from the i-th on.
Flat(taken, i) == IF i > Len(taken) THEN <<>> ELSE taken[i].elems \o Flat(taken, i + 1)

RECURSIVE Running(_)
\* The elements of the chains that the applies from thread t on have
\* withdrawn and not yet passed to func.
Running(t) ==
    IF t > ListThreads THEN <<>>
    ELSE (IF rd.th[t].pc = "run" THEN Chain(rd.cells, rd.th[t].head) ELSE <<>>)
         \o Running(t + 1)

\* Every element of the list and of the withdrawn chains, as often as it is there.
Everywhere == Chain(rd.cells, rd.m_head) \o Flat(rd.taken, 1) \o Running(1)

Times(s, e) == Cardinality({i \in 1..Len(s) : s[i] = e})

\* C39: however push, pop_all and apply interleave, an element whose push has
\* taken effect is in the list or in one withdrawn chain, once: none is lost
\* and none delivered twice; an element not yet pushed is in neither.
C39_WithdrawnOnce ==
    pc = "list" =>
        /\ \A e \in 1..MaxPush :
              /\ Times(rd.pushed, e) <= 1
              /\ Times(Everywhere, e) = Times(rd.pushed, e)
        /\ Len(Everywhere) = Len(rd.pushed)

\* All elements were pushed, two withdrawals have each taken some, and one is
\* still in the list.
C39_Witness ==
    /\ pc = "list"
    /\ Len(rd.pushed) = MaxPush
    /\ rd.m_head # 0
    /\ \E i, j \in 1..Len(rd.taken) :
          i # j /\ rd.taken[i].elems # <<>> /\ rd.taken[j].elems # <<>>

\* The place of element e in the order of the pushes.
Pos(e) == CHOOSE k \in 1..Len(rd.pushed) : rd.pushed[k] = e

\* The last withdrawal recorded in the next state.
Applied == rd'.taken[Len(rd'.taken)]

\* C40: apply takes the whole list in one exchange and calls func once on
\* each element taken, the oldest push first, returning their number; what
\* is pushed after the exchange stays in the list.
C40_ApplyFifo ==
    [][\A t \in Callers :
          /\ ApplyXchg(t) =>
                /\ rd'.m_head = 0
                /\ rd.m_head # 0 =>
                      Chain(rd'.cells, rd'.th[t].head) = Chain(rd.cells, rd.m_head)
          /\ ApplyRun(t) =>
                /\ Len(rd'.taken) = Len(rd.taken) + 1
                /\ Applied.count = Len(Applied.elems)
                /\ \A e \in 1..MaxPush :
                      Times(Applied.elems, e) = Times(Chain(rd.cells, rd.th[t].head), e)
                /\ \A i, j \in 1..Len(Applied.elems) :
                      i < j => Pos(Applied.elems[i]) < Pos(Applied.elems[j])
                /\ Chain(rd'.cells, rd'.m_head) = Chain(rd.cells, rd.m_head)]_vars

\* An apply has called func on two elements while a third, pushed after the
\* exchange, is in the list.
C40_Witness ==
    /\ pc = "list"
    /\ rd.m_head # 0
    /\ rd.taken # <<>>
    /\ rd.taken[Len(rd.taken)].by = "apply"
    /\ rd.taken[Len(rd.taken)].count = 2
    /\ \A t \in Callers : rd.th[t].pc = "idle"

=============================================================================
